---- MODULE Spec2Model ----
(***************************************************************************)
(* A model of the SyncNet batch tooling: the offsets.txt parsers, the job  *)
(* runners (process_single_video, process_single_chunk,                    *)
(* run_syncnet_pipeline), the batch runners (filter_videos,                *)
(* batch_process_chunks, process_long_video) and the chunk planners        *)
(* (cut_video_chunks, the chunk-time command).                             *)
(*                                                                         *)
(* Text is modelled as a sequence of tokens.  The keywords TRACK, OFFSET   *)
(* and CONF are single tokens, every other token is one character, so the  *)
(* separators the code splits on (': OFFSET ', ', CONF ', ', ', 'CONF ')    *)
(* are token sequences and str.split / the `in` test are computed on them  *)
(* as Python computes them on characters.  Times are whole seconds.        *)
(* Confidences are counted in thousandths (7.183 is 7183), the precision   *)
(* of the '%.3f' the scoring tool writes.                                  *)
(***************************************************************************)
EXTENDS Integers, Sequences, FiniteSets, TLC

VARIABLES
    \* --- parsing of one offsets.txt
    offsets_text,    \* the lines of the file, after read()
    parsed,          \* what a parser made of it
    \* --- one job
    runner, thresholds, job_env, job_result, job_stages,
    \* --- one batch
    batch, max_workers, keep_all, jobs, results, completed, accepted_chunks,
    rejected_chunks, summary, copies, loop_index,
    finished_futures,      \* the returned jobs not yet collected, oldest first
    finished_before_loop,  \* how many of them as_completed found finished
    \* --- one chunk planning run
    planner, total_duration, chunk_duration, overlap, start_time, chunk_num,
    chunk_files, commands, plan_pc,
    first_plan,      \* the extractions of the planner that ran before this one
    iterations,      \* passes of the planning loop entered so far
    \* --- the files filter_videos and DirectoryPreparer leave on disk
    input_dir,       \* the names of the files in the input directory
    tool_env,        \* how the external tools behave on each video
    unwritable,      \* the paths at which a copy, conversion or removal fails
    video_files, org_results, org_index, org_pc, run_number,
    disk,            \* the files and directories written so far
    disk_after_first, \* disk when the first run had finished
    temp_dir,        \* what lies in temp_dir/<video_name> while jobs run
    \* --- one run of a command-line entry point
    argv,            \* the command line and what it finds on disk
    cli_pc,          \* where the process is
    exit_status      \* the exit status of the process, once it has exited

parseVars == <<offsets_text, parsed>>
jobVars   == <<runner, thresholds, job_env, job_result, job_stages>>
batchVars == <<batch, max_workers, keep_all, jobs, results, completed,
               accepted_chunks, rejected_chunks, summary, copies, loop_index,
               finished_futures, finished_before_loop>>
planVars  == <<planner, total_duration, chunk_duration, overlap, start_time,
               chunk_num, chunk_files, commands, plan_pc, first_plan,
               iterations>>
orgVars   == <<input_dir, tool_env, unwritable, video_files, org_results,
               org_index, org_pc, run_number, disk, disk_after_first,
               temp_dir>>
cliVars   == <<argv, cli_pc, exit_status>>
vars == <<parseVars, jobVars, batchVars, planVars, orgVars, cliVars>>

(***************************************************************************)
(* Python string operations on token sequences                             *)
(***************************************************************************)
DigitChars == <<"0", "1", "2", "3", "4", "5", "6", "7", "8", "9">>

IsDigit(c) == \E d \in 1..10 : DigitChars[d] = c

DigitVal(c) == (CHOOSE d \in 1..10 : DigitChars[d] = c) - 1

RECURSIVE LStrip(_)
LStrip(s) == IF s # <<>> /\ Head(s) = " " THEN LStrip(Tail(s)) ELSE s

RECURSIVE RStrip(_)
RStrip(s) ==
    IF s # <<>> /\ s[Len(s)] = " " THEN RStrip(SubSeq(s, 1, Len(s) - 1)) ELSE s

\* str.strip()
Strip(s) == RStrip(LStrip(s))

MatchAt(s, sub, i) ==
    /\ i + Len(sub) - 1 <= Len(s)
    /\ SubSeq(s, i, i + Len(sub) - 1) = sub

\* sub in s
Contains(s, sub) == \E i \in 1..Len(s) : MatchAt(s, sub, i)

\* s.split(sep): the pieces between the non-overlapping occurrences of sep,
\* found left to right.
RECURSIVE Split(_, _)
Split(s, sep) ==
    IF ~Contains(s, sep)
    THEN <<s>>
    ELSE LET i == CHOOSE k \in 1..Len(s) :
                      /\ MatchAt(s, sep, k)
                      /\ \A j \in 1..(k - 1) : ~MatchAt(s, sep, j)
         IN  <<SubSeq(s, 1, i - 1)>> \o Split(SubSeq(s, i + Len(sep), Len(s)), sep)

AllDigits(s) == \A i \in 1..Len(s) : IsDigit(s[i])

RECURSIVE NatVal(_)
NatVal(s) ==
    IF s = <<>> THEN 0
    ELSE 10 * NatVal(SubSeq(s, 1, Len(s) - 1)) + DigitVal(s[Len(s)])

HasSign(t) == t # <<>> /\ Head(t) \in {"-", "+"}

Unsigned(t) == IF HasSign(t) THEN Tail(t) ELSE t

SignOf(t) == IF t # <<>> /\ Head(t) = "-" THEN -1 ELSE 1

\* int(s): <<v>> for the value, <<>> for ValueError.
ParseInt(s) ==
    LET t == Strip(s)
        body == Unsigned(t)
    IN  IF body # <<>> /\ AllDigits(body)
        THEN <<SignOf(t) * NatVal(body)>>
        ELSE <<>>

\* The first three fractional digits as thousandths; the literals of the
\* model carry at most three.
Frac3(fp) ==
    LET padded == fp \o <<"0", "0", "0">>
    IN  NatVal(SubSeq(padded, 1, 3))

\* float(s) in thousandths: <<v>> for the value, <<>> for ValueError.
ParseFloat(s) ==
    LET t == Strip(s)
        body == Unsigned(t)
        pieces == Split(body, <<".">>)
        ip == pieces[1]
        fp == IF Len(pieces) = 2 THEN pieces[2] ELSE <<>>
    IN  IF /\ Len(pieces) <= 2
           /\ AllDigits(ip) /\ AllDigits(fp)
           /\ Len(ip) + Len(fp) >= 1
        THEN <<SignOf(t) * (1000 * NatVal(ip) + Frac3(fp))>>
        ELSE <<>>

(***************************************************************************)
(* The writer of offsets.txt (run_syncnet.py)                              *)
(***************************************************************************)
RECURSIVE NatStr(_)
NatStr(n) ==
    IF n < 10 THEN <<DigitChars[n + 1]>>
    ELSE NatStr(n \div 10) \o <<DigitChars[(n % 10) + 1]>>

Abs(n) == IF n < 0 THEN -n ELSE n

\* '%d' % n
FmtD(n) == IF n < 0 THEN <<"-">> \o NatStr(-n) ELSE NatStr(n)

\* '%.3f' % conf, conf in thousandths
Fmt3fUnpadded(c) ==
    LET a == Abs(c)
    IN  (IF c < 0 THEN <<"-">> ELSE <<>>)
        \o NatStr(a \div 1000) \o <<".">> \o NatStr(a % 1000)
Fmt3f(c) ==
    LET a == Abs(c)
        f == a % 1000
    IN  (IF c < 0 THEN <<"-">> ELSE <<>>)
        \o NatStr(a \div 1000) \o <<".">>
        \o <<DigitChars[(f \div 100) + 1], DigitChars[((f \div 10) % 10) + 1],
             DigitChars[(f % 10) + 1]>>

\* 'TRACK %d: OFFSET %d, CONF %.3f' % (idx, offset, conf)
WriteLine(idx, offset, conf) ==
    <<"TRACK", " ">> \o FmtD(idx) \o <<":", " ", "OFFSET", " ">> \o FmtD(offset)
    \o <<",", " ", "CONF", " ">> \o Fmt3f(conf)

(***************************************************************************)
(* The two parsers of offsets.txt                                          *)
(***************************************************************************)
SepOffset == <<":", " ", "OFFSET", " ">>       \* ': OFFSET '
SepCommaConf == <<",", " ", "CONF", " ">>      \* ', CONF '
SepComma == <<",", " ">>                       \* ', '
SepConf == <<"CONF", " ">>                     \* 'CONF '

Track(o, c) == [offset |-> o, confidence |-> c]

\* The body of the loop over lines in process_single_video: the tracks (none
\* or one) the line adds.
FilterParseLine(line) ==
    IF /\ Contains(line, <<"TRACK">>)
       /\ Contains(line, <<"OFFSET">>)
       /\ Contains(line, <<"CONF">>)
    THEN LET parts == Split(line, SepOffset)
         IN  IF Len(parts) >= 2
             THEN LET offset_conf_part == Split(parts[2], SepCommaConf)
                  IN  IF Len(offset_conf_part) >= 2
                      THEN LET o == ParseInt(offset_conf_part[1])
                               c == ParseFloat(offset_conf_part[2])
                           IN  IF o # <<>> /\ c # <<>>
                               THEN <<Track(o[1], c[1])>>
                               ELSE <<>>
                      ELSE <<>>
             ELSE <<>>
    ELSE <<>>

\* The body of the loop over lines in process_single_chunk and
\* run_syncnet_pipeline.
ChunkParseLine(raw) ==
    LET line == Strip(raw)
    IN  IF line # <<>> /\ Contains(line, <<"TRACK">>)
        THEN LET parts == Split(line, SepComma)
             IN  IF Len(parts) >= 2
                 THEN LET offset_part == Split(parts[1], SepOffset)
                          conf_part == Split(parts[2], SepConf)
                      IN  IF Len(offset_part) >= 2 /\ Len(conf_part) >= 2
                          THEN LET o == ParseInt(offset_part[2])
                                   c == ParseFloat(conf_part[2])
                               IN  IF o # <<>> /\ c # <<>>
                                   THEN <<Track(o[1], c[1])>>
                                   ELSE <<>>
                          ELSE <<>>
                 ELSE <<>>
        ELSE <<>>

IsBlank(line) == Strip(line) = <<>>

RECURSIVE DropLeadingBlank(_)
DropLeadingBlank(ls) ==
    IF ls # <<>> /\ IsBlank(Head(ls)) THEN DropLeadingBlank(Tail(ls)) ELSE ls

RECURSIVE DropTrailingBlank(_)
DropTrailingBlank(ls) ==
    IF ls # <<>> /\ IsBlank(ls[Len(ls)])
    THEN DropTrailingBlank(SubSeq(ls, 1, Len(ls) - 1))
    ELSE ls

\* f.read().strip().split('\n') on a file given as its lines: white space
\* and newlines go from both ends of the text; the empty text is one empty
\* line.
ReadLines(file) ==
    LET ls == DropTrailingBlank(DropLeadingBlank(file))
    IN  IF ls = <<>> THEN << <<>> >>
        ELSE [i \in 1..Len(ls) |->
                 IF i = 1 /\ i = Len(ls) THEN Strip(ls[i])
                 ELSE IF i = 1 THEN LStrip(ls[i])
                 ELSE IF i = Len(ls) THEN RStrip(ls[i])
                 ELSE ls[i]]

RECURSIVE FilterParseLines(_)
FilterParseLines(ls) ==
    IF ls = <<>> THEN <<>>
    ELSE FilterParseLine(Head(ls)) \o FilterParseLines(Tail(ls))

RECURSIVE ChunkParseLines(_)
ChunkParseLines(ls) ==
    IF ls = <<>> THEN <<>>
    ELSE ChunkParseLine(Head(ls)) \o ChunkParseLines(Tail(ls))

\* tracks as built by process_single_video
FilterParse(file) == FilterParseLines(ReadLines(file))

\* tracks as built by process_single_chunk / run_syncnet_pipeline; an empty
\* text is not parsed at all
ChunkParse(file) ==
    LET ls == ReadLines(file)
    IN  IF ls = << <<>> >> THEN <<>> ELSE ChunkParseLines(ls)

\* max(tracks, key=lambda x: x['confidence']) on a non-empty list: the first
\* track no later track exceeds.
RECURSIVE MaxFromLast(_, _)
MaxFromLast(best, rest) ==
    IF rest = <<>> THEN best
    ELSE IF Head(rest).confidence >= best.confidence
         THEN MaxFromLast(Head(rest), Tail(rest))
         ELSE MaxFromLast(best, Tail(rest))

RECURSIVE MaxFrom(_, _)
MaxFrom(best, rest) ==
    IF rest = <<>> THEN best
    ELSE IF Head(rest).confidence > best.confidence
         THEN MaxFrom(Head(rest), Tail(rest))
         ELSE MaxFrom(best, Tail(rest))

BestTrack(tracks) == MaxFrom(Head(tracks), Tail(tracks))

(***************************************************************************)
(* The job runners                                                         *)
(*                                                                         *)
(* A result is the dict the runner returns: `keys` holds the optional keys *)
(* that are present, and a field whose key is absent keeps the value it    *)
(* has in NewResult.  The external tools are given by env: the exit code   *)
(* of each stage, whether preprocessing left a face-track artifact, and    *)
(* the offsets.txt scoring left (or none).  A runner returns `ret`, the    *)
(* value returned (<<>> for None), and `stages`, the tools it invoked with *)
(* their exit codes, in order.                                             *)
(***************************************************************************)
NewResult(name) ==
    [name |-> name, status |-> "failed", keys |-> {}, error |-> "",
     message |-> "", offset |-> 0, confidence |-> 0, all_tracks |-> <<>>,
     passes_quality |-> FALSE, quality_reasons |-> <<>>,
     visualization_created |-> FALSE, quality_status |-> "",
     rejection_reason |-> <<>>, chunk_index |-> -1]

Invoked(stage, rc) == [stage |-> stage, rc |-> rc]

\* returncode != 0
StageFailedIfNegative(rc) == rc < 0
StageFailed(rc) == rc # 0

\* passes_confidence and passes_offset of process_single_video
PassesQualityStrict(confidence, offset, th) ==
    /\ confidence > th.min_confidence
    /\ Abs(offset) <= th.max_abs_offset
PassesQuality(confidence, offset, th) ==
    /\ confidence >= th.min_confidence
    /\ Abs(offset) <= th.max_abs_offset

QualityReasonsOffsetFirst(confidence, offset, th) ==
    (IF ~(Abs(offset) <= th.max_abs_offset) THEN <<"High offset">> ELSE <<>>)
    \o (IF ~(confidence >= th.min_confidence) THEN <<"Low confidence">> ELSE <<>>)
QualityReasons(confidence, offset, th) ==
    (IF ~(confidence >= th.min_confidence) THEN <<"Low confidence">> ELSE <<>>)
    \o (IF ~(Abs(offset) <= th.max_abs_offset) THEN <<"High offset">> ELSE <<>>)

\* result['offset'], result['confidence'], result['all_tracks'] from the
\* parsed tracks, when there are any
WithBestTrack(r, tracks) ==
    IF tracks = <<>> THEN r
    ELSE [r EXCEPT !.offset = BestTrack(tracks).offset,
                   !.confidence = BestTrack(tracks).confidence,
                   !.all_tracks = tracks,
                   !.keys = @ \cup {"offset", "confidence", "all_tracks"}]

\* SyncNetFilter.process_single_video, up to its return value
ProcessSingleVideo(name, env, th) ==
    LET r0 == NewResult(name)
        pre == <<Invoked("preprocess", env.pre_rc)>>
        score == pre \o <<Invoked("score", env.score_rc)>>
        tracks == IF env.offsets_exists THEN FilterParse(env.offsets) ELSE <<>>
        r1 == WithBestTrack(r0, tracks)
        r2 == [r1 EXCEPT
                 !.passes_quality = PassesQuality(r1.confidence, r1.offset, th),
                 !.quality_reasons = QualityReasons(r1.confidence, r1.offset, th),
                 !.visualization_created = (env.viz_rc = 0),
                 !.status = "success",
                 !.keys = @ \cup {"passes_quality", "quality_reasons",
                                  "visualization_created"}
                            \cup (IF env.viz_rc = 0 THEN {}
                                  ELSE {"visualization_error"})]
    IN  IF StageFailed(env.pre_rc)
        THEN [ret |-> <<[r0 EXCEPT !.error = "Pipeline failed",
                                   !.keys = {"error"}]>>,
              stages |-> pre]
        ELSE IF ~env.artifact
        THEN [ret |-> <<[r0 EXCEPT !.status = "no_faces",
                                   !.message = "No face tracks detected",
                                   !.keys = {"message"}]>>,
              stages |-> pre]
        ELSE IF StageFailed(env.score_rc)
        THEN [ret |-> <<[r0 EXCEPT !.error = "SyncNet failed",
                                   !.keys = {"error"}]>>,
              stages |-> score]
        ELSE IF "confidence" \notin r1.keys
        THEN [ret |-> <<[r1 EXCEPT !.error = "Could not parse SyncNet results",
                                   !.keys = @ \cup {"error"}]>>,
              stages |-> score]
        ELSE [ret |-> <<r2>>,
              stages |-> score \o <<Invoked("visualize", env.viz_rc)>>]

\* process_single_chunk
ProcessSingleChunk(name, env) ==
    LET r0 == NewResult(name)
        pre == <<Invoked("preprocess", env.pre_rc)>>
        score == pre \o <<Invoked("score", env.score_rc)>>
        tracks == IF env.offsets_exists THEN ChunkParse(env.offsets) ELSE <<>>
        r1 == WithBestTrack([r0 EXCEPT !.keys = {"face_tracks"}], tracks)
    IN  IF StageFailed(env.pre_rc)
        THEN [ret |-> <<[r0 EXCEPT !.error = "Pipeline failed",
                                   !.keys = {"error"}]>>,
              stages |-> pre]
        ELSE IF ~env.artifact
        THEN [ret |-> <<[r0 EXCEPT !.status = "no_faces",
                                   !.message = "No face tracks found",
                                   !.keys = {"message"}]>>,
              stages |-> pre]
        ELSE IF StageFailed(env.score_rc)
        THEN [ret |-> <<[r0 EXCEPT !.error = "SyncNet failed",
                                   !.keys = {"face_tracks", "error"}]>>,
              stages |-> score]
        ELSE [ret |-> <<[r1 EXCEPT !.status = "success",
                                   !.keys = @ \cup {"offsets_file"}]>>,
              stages |-> score]

\* run_syncnet_pipeline: None when a stage fails
RunSyncnetPipeline(name, env) ==
    LET r0 == NewResult(name)
        pre == <<Invoked("preprocess", env.pre_rc)>>
        score == pre \o <<Invoked("score", env.score_rc)>>
        tracks == IF env.offsets_exists THEN ChunkParse(env.offsets) ELSE <<>>
        r1 == WithBestTrack([r0 EXCEPT !.status = "success",
                                       !.keys = {"face_tracks", "offsets_file"}],
                            tracks)
    IN  IF StageFailed(env.pre_rc)
        THEN [ret |-> <<>>, stages |-> pre]
        ELSE IF ~env.artifact
        THEN [ret |-> <<[r0 EXCEPT !.status = "no_faces"]>>, stages |-> pre]
        ELSE IF StageFailed(env.score_rc)
        THEN [ret |-> <<>>, stages |-> score]
        ELSE [ret |-> <<r1>>,
              stages |-> score \o <<Invoked("visualize", env.viz_rc)>>]

\* run_syncnet_on_chunk (process_video_chunks.py): False, written <<>>, when
\* any of its three commands exits non-zero, otherwise a dict with
\* 'success': True, written as status "success".  Its 'output_video' entry
\* is not modelled.
RunSyncnetOnChunk(name, env) ==
    LET r0 == NewResult(name)
        pre == <<Invoked("preprocess", env.pre_rc)>>
        score == pre \o <<Invoked("score", env.score_rc)>>
        viz == score \o <<Invoked("visualize", env.viz_rc)>>
    IN  IF StageFailed(env.pre_rc)
        THEN [ret |-> <<>>, stages |-> pre]
        ELSE IF StageFailed(env.score_rc)
        THEN [ret |-> <<>>, stages |-> score]
        ELSE IF StageFailed(env.viz_rc)
        THEN [ret |-> <<>>, stages |-> viz]
        ELSE [ret |-> <<[r0 EXCEPT
                           !.status = "success",
                           !.keys = IF env.offsets_exists
                                    THEN {"offsets_file"} ELSE {}]>>,
              stages |-> viz]

\* The quality check of process_long_video on one returned result.  A
\* missing offset counts as infinite, a missing confidence as 0.0.
EvaluateChunkWithoutNoFaces(r, th) ==
    IF r.status = "success"
    THEN [r EXCEPT !.quality_status = "accepted",
                   !.keys = @ \cup {"quality_status"}]
    ELSE r
EvaluateChunk(r, th) ==
    LET confidence == IF "confidence" \in r.keys THEN r.confidence ELSE 0
        is_good_confidence == confidence >= th.min_confidence
        is_good_offset ==
            "offset" \in r.keys /\ Abs(r.offset) <= th.max_abs_offset
    IN  IF r.status = "success"
        THEN IF th.filter_low_quality
                /\ (~is_good_confidence \/ ~is_good_offset)
             THEN [r EXCEPT
                     !.quality_status = "rejected",
                     !.rejection_reason =
                         (IF ~is_good_confidence THEN <<"low_confidence">>
                          ELSE <<>>)
                         \o (IF ~is_good_offset THEN <<"high_offset">>
                             ELSE <<>>),
                     !.keys = @ \cup {"quality_status", "rejection_reason"}]
             ELSE [r EXCEPT !.quality_status = "accepted",
                            !.keys = @ \cup {"quality_status"}]
        ELSE IF r.status = "no_faces"
        THEN [r EXCEPT !.quality_status = "rejected",
                       !.rejection_reason = <<"no_faces_detected">>,
                       !.keys = @ \cup {"quality_status", "rejection_reason"}]
        ELSE r

(***************************************************************************)
(* Values of the variables a specification does not use                    *)
(***************************************************************************)
NotParsed == [by |-> "none", tracks |-> <<>>, best |-> <<>>]

IdleParse == offsets_text = <<>> /\ parsed = NotParsed

IdleJob ==
    /\ runner = "none"
    /\ thresholds = [min_confidence |-> 0, max_abs_offset |-> 0,
                     filter_low_quality |-> FALSE]
    /\ job_env = <<>>
    /\ job_result = <<>>
    /\ job_stages = <<>>

\* as_completed(...) has not been entered
NotCollecting == -1

IdleBatch ==
    /\ batch = "none"
    /\ max_workers = 0
    /\ keep_all = FALSE
    /\ jobs = <<>>
    /\ results = <<>>
    /\ completed = 0
    /\ accepted_chunks = <<>>
    /\ rejected_chunks = <<>>
    /\ summary = <<>>
    /\ copies = {}
    /\ loop_index = 0
    /\ finished_futures = <<>>
    /\ finished_before_loop = NotCollecting

IdleOrganize ==
    /\ input_dir = {}
    /\ tool_env = <<>>
    /\ unwritable = {}
    /\ video_files = <<>>
    /\ org_results = <<>>
    /\ org_index = 0
    /\ org_pc = "none"
    /\ run_number = 0
    /\ disk = [files |-> {}, dirs |-> {}]
    /\ disk_after_first = [files |-> {}, dirs |-> {}]
    /\ temp_dir = <<>>

\* The process has not exited.
StillRunning == -1

IdleCli == argv = <<>> /\ cli_pc = "none" /\ exit_status = StillRunning

IdlePlan ==
    /\ planner = "none"
    /\ total_duration = 0
    /\ chunk_duration = 0
    /\ overlap = 0
    /\ start_time = 0
    /\ chunk_num = 0
    /\ chunk_files = <<>>
    /\ commands = <<>>
    /\ plan_pc = "idle"
    /\ first_plan = <<>>
    /\ iterations = 0

(***************************************************************************)
(* Parsing one offsets.txt                                                 *)
(***************************************************************************)
MaxLines == 3        \* lines in a file
MaxBadLines == 1     \* lines of a file that the scoring tool did not write

TrackIdxs == {0, 1}
Offsets == {-1, 2}
Confs == {3500, 5000, 7183}

\* The lines run_syncnet.py writes.
WrittenLines == {WriteLine(i, o, c) : i \in TrackIdxs, o \in Offsets, c \in Confs}

BaseLine == WriteLine(0, -1, 7183)

DeleteAt(s, k) == SubSeq(s, 1, k - 1) \o SubSeq(s, k + 1, Len(s))

\* Damaged and foreign lines: a written line with one token lost, a written
\* line with a second CONF field, 'garbage line', an empty line.
OtherLines ==
    {DeleteAt(BaseLine, k) : k \in 1..Len(BaseLine)}
    \cup {BaseLine \o <<",", " ", "CONF", " ", "2">>,
          <<"x", " ", "x">>, <<>>}

FileOf(n, P, good, bad) == [i \in 1..n |-> IF i \in P THEN bad[i] ELSE good[i]]

InitParse ==
    /\ \E n \in 0..MaxLines :
        \E P \in SUBSET (1..n) :
            /\ Cardinality(P) <= MaxBadLines
            /\ \E good \in [(1..n) \ P -> WrittenLines] :
                \E bad \in [P -> OtherLines] :
                    offsets_text = FileOf(n, P, good, bad)
    /\ parsed = NotParsed
    /\ IdleJob /\ IdleBatch /\ IdlePlan /\ IdleOrganize /\ IdleCli

Parsed(by, tracks) ==
    [by |-> by, tracks |-> tracks,
     best |-> IF tracks # <<>> THEN <<BestTrack(tracks)>> ELSE <<>>]

\* Step 3 of process_single_video on the file.
ParseInSingleVideo ==
    /\ parsed.by = "none"
    /\ parsed' = Parsed("process_single_video", FilterParse(offsets_text))
    /\ UNCHANGED <<offsets_text, jobVars, batchVars, planVars, orgVars, cliVars>>

\* Step 3 of process_single_chunk (and of run_syncnet_pipeline) on the file.
ParseInSingleChunk ==
    /\ parsed.by = "none"
    /\ parsed' = Parsed("process_single_chunk", ChunkParse(offsets_text))
    /\ UNCHANGED <<offsets_text, jobVars, batchVars, planVars, orgVars, cliVars>>

NextParse == ParseInSingleVideo \/ ParseInSingleChunk

SpecParse == InitParse /\ [][NextParse]_vars

(***************************************************************************)
(* The grammar of a track line                                             *)
(***************************************************************************)
IsIntLit(s) == LET b == Unsigned(s) IN b # <<>> /\ AllDigits(b)

IsFloatLit(s) ==
    LET b == Unsigned(s)
        dots == {i \in 1..Len(b) : b[i] = "."}
    IN  /\ Cardinality(dots) <= 1
        /\ \A i \in 1..Len(b) : IsDigit(b[i]) \/ b[i] = "."
        /\ \E i \in 1..Len(b) : IsDigit(b[i])

\* 'TRACK <int>: OFFSET <int>, CONF <float>'
FieldsOf(line) ==
    {<<i, j>> \in (1..Len(line)) \X (1..Len(line)) :
        /\ i < j
        /\ SubSeq(line, 1, 2) = <<"TRACK", " ">>
        /\ MatchAt(line, SepOffset, i)
        /\ MatchAt(line, SepCommaConf, j)
        /\ IsIntLit(SubSeq(line, 3, i - 1))
        /\ IsIntLit(SubSeq(line, i + 4, j - 1))
        /\ IsFloatLit(SubSeq(line, j + 4, Len(line)))}

IsTrackLine(line) == FieldsOf(line) # {}

TrackOfLine(line) ==
    LET f == CHOOSE f \in FieldsOf(line) : TRUE
    IN  Track(ParseInt(SubSeq(line, f[1] + 4, f[2] - 1))[1],
              ParseFloat(SubSeq(line, f[2] + 4, Len(line)))[1])

RECURSIVE TrackLinesOf(_)
TrackLinesOf(ls) ==
    IF ls = <<>> THEN <<>>
    ELSE (IF IsTrackLine(Head(ls)) THEN <<TrackOfLine(Head(ls))>> ELSE <<>>)
         \o TrackLinesOf(Tail(ls))

\* C7: a parser yields, in file order, one candidate for each line of the
\* form 'TRACK <int>: OFFSET <int>, CONF <float>' and nothing for any other
\* line.
ParserYieldsExactlyTrackLines ==
    parsed.by # "none" => parsed.tracks = TrackLinesOf(offsets_text)

\* C8: the recorded track has the maximum confidence of the parsed tracks
\* and is the earliest track that has it.
BestIsFirstMaximum ==
    parsed.best # <<>> =>
        \E i \in 1..Len(parsed.tracks) :
            /\ parsed.best[1] = parsed.tracks[i]
            /\ \A k \in 1..Len(parsed.tracks) :
                   parsed.tracks[k].confidence <= parsed.tracks[i].confidence
            /\ \A k \in 1..(i - 1) :
                   parsed.tracks[k].confidence < parsed.tracks[i].confidence

\* Three tracks, the first and the third sharing the highest confidence.
WitnessTieAtFirstAndThird ==
    /\ parsed.by # "none"
    /\ Len(parsed.tracks) = 3
    /\ parsed.tracks[1].confidence = parsed.tracks[3].confidence
    /\ parsed.tracks[2].confidence < parsed.tracks[1].confidence
    /\ parsed.tracks[1].offset # parsed.tracks[3].offset
    /\ parsed.best = <<parsed.tracks[1]>>

(***************************************************************************)
(* One job under each job runner                                           *)
(***************************************************************************)
ReturnCodes == {0, 1}

JobOffsets == {-3, 2, 4}
JobConfs == {4900, 5000}

JobLines ==
    {WriteLine(0, o, c) : o \in JobOffsets, c \in JobConfs} \cup {<<"x", " ", "x">>}

MaxJobLines == 2     \* lines of the offsets.txt of a job

JobFiles == UNION {[1..n -> JobLines] : n \in 0..MaxJobLines}

EnvsOver(files) ==
    {e \in [pre_rc : ReturnCodes, artifact : BOOLEAN, score_rc : ReturnCodes,
            offsets_exists : BOOLEAN, offsets : files, viz_rc : ReturnCodes] :
        e.offsets_exists \/ e.offsets = <<>>}

JobEnvs == EnvsOver(JobFiles)

\* min_confidence and max_abs_offset: the defaults of SyncNetFilter and of
\* process_long_video
ThresholdChoices ==
    [min_confidence : {2000, 5000}, max_abs_offset : {3, 10},
     filter_low_quality : BOOLEAN]

InitJob ==
    /\ runner = "none"
    /\ thresholds \in ThresholdChoices
    /\ job_env = <<>>
    /\ job_result = <<>>
    /\ job_stages = <<>>
    /\ IdleParse /\ IdleBatch /\ IdlePlan /\ IdleOrganize /\ IdleCli

RunProcessSingleVideo ==
    /\ runner = "none"
    /\ \E env \in JobEnvs :
        LET out == ProcessSingleVideo(1, env, thresholds)
        IN  /\ runner' = "process_single_video"
            /\ job_env' = env
            /\ job_result' = out.ret
            /\ job_stages' = out.stages
    /\ UNCHANGED <<thresholds, parseVars, batchVars, planVars, orgVars, cliVars>>

RunProcessSingleChunk ==
    /\ runner = "none"
    /\ \E env \in JobEnvs :
        LET out == ProcessSingleChunk(1, env)
        IN  /\ runner' = "process_single_chunk"
            /\ job_env' = env
            /\ job_result' = out.ret
            /\ job_stages' = out.stages
    /\ UNCHANGED <<thresholds, parseVars, batchVars, planVars, orgVars, cliVars>>

\* One chunk of process_long_video: run_syncnet_pipeline, then the quality
\* check on what it returned.
RunSyncnetPipelineOnChunk ==
    /\ runner = "none"
    /\ \E env \in JobEnvs :
        LET out == RunSyncnetPipeline(1, env)
        IN  /\ runner' = "run_syncnet_pipeline"
            /\ job_env' = env
            /\ job_result' = IF out.ret = <<>> THEN <<>>
                             ELSE <<EvaluateChunk(out.ret[1], thresholds)>>
            /\ job_stages' = out.stages
    /\ UNCHANGED <<thresholds, parseVars, batchVars, planVars, orgVars, cliVars>>

\* One video or chunk handed to run_syncnet_on_chunk.
CallRunSyncnetOnChunk ==
    /\ runner = "none"
    /\ \E env \in JobEnvs :
        LET out == RunSyncnetOnChunk(1, env)
        IN  /\ runner' = "run_syncnet_on_chunk"
            /\ job_env' = env
            /\ job_result' = out.ret
            /\ job_stages' = out.stages
    /\ UNCHANGED <<thresholds, parseVars, batchVars, planVars, orgVars, cliVars>>

NextJob ==
    \/ RunProcessSingleVideo
    \/ RunProcessSingleChunk
    \/ RunSyncnetPipelineOnChunk
    \/ CallRunSyncnetOnChunk

SpecJob == InitJob /\ [][NextJob]_vars

VerdictKeys == {"passes_quality", "quality_reasons", "quality_status"}

Rule(confidence, offset) ==
    /\ confidence >= thresholds.min_confidence
    /\ offset <= thresholds.max_abs_offset
    /\ -offset <= thresholds.max_abs_offset

\* C1: the recorded decision is "confidence >= min_confidence and
\* |offset| <= max_abs_offset", and the mirrored offset gets the same one.
QualityDecisionFollowsRule ==
    /\ (runner = "process_single_video" /\ job_result[1].status = "success") =>
          /\ job_result[1].passes_quality
                 = Rule(job_result[1].confidence, job_result[1].offset)
          /\ PassesQuality(job_result[1].confidence, -job_result[1].offset,
                           thresholds) = job_result[1].passes_quality
    /\ (/\ runner = "run_syncnet_pipeline"
        /\ job_result # <<>>
        /\ thresholds.filter_low_quality
        /\ {"offset", "confidence"} \subseteq job_result[1].keys) =>
          /\ (job_result[1].quality_status = "accepted")
                 = Rule(job_result[1].confidence, job_result[1].offset)
          /\ EvaluateChunk([job_result[1] EXCEPT !.offset = -@],
                           thresholds).quality_status
                 = job_result[1].quality_status

\* A job whose confidence and |offset| both sit on their bounds, and passes.
WitnessOnBothBounds ==
    /\ runner = "process_single_video"
    /\ job_result[1].status = "success"
    /\ job_result[1].confidence = thresholds.min_confidence
    /\ job_result[1].offset = -thresholds.max_abs_offset
    /\ job_result[1].passes_quality

StatusByExitCodes(env) ==
    IF env.pre_rc # 0 THEN "failed"
    ELSE IF ~env.artifact THEN "no_faces"
    ELSE IF env.score_rc # 0 THEN "failed"
    ELSE "success"

NoVerdictOnFailure(r) ==
    r.status \in {"failed", "no_faces"} => r.keys \cap VerdictKeys = {}

NoTrackParsed(env, by) ==
    \/ ~env.offsets_exists
    \/ (by = "process_single_video" /\ FilterParse(env.offsets) = <<>>)
    \/ (by # "process_single_video" /\ ChunkParse(env.offsets) = <<>>)

UnparsedOutputIsFailure ==
    (/\ runner \in {"process_single_video", "process_single_chunk",
                    "run_syncnet_pipeline"}
     /\ StatusByExitCodes(job_env) = "success"
     /\ NoTrackParsed(job_env, runner)) =>
        \/ job_result = <<>>
        \/ /\ job_result[1].status = "failed"
           /\ job_result[1].keys \cap VerdictKeys = {}

\* The reasons the criteria give for one measurement: the confidence
\* criterion first, the offset criterion second.
FailingCriteria(confidence, offset, low, high) ==
    (IF confidence < thresholds.min_confidence THEN <<low>> ELSE <<>>)
    \o (IF \/ offset > thresholds.max_abs_offset
           \/ -offset > thresholds.max_abs_offset
        THEN <<high>> ELSE <<>>)

IsSpecExample(r) ==
    /\ r.confidence = 4900 /\ r.offset = 2
    /\ thresholds.min_confidence = 5000 /\ thresholds.max_abs_offset = 3

\* C14: the reasons list of a verdict holds one entry per failing criterion
\* and nothing else, confidence before offset, and is empty exactly when the
\* verdict passed; confidence 4.9 and offset 2 under thresholds 5.0 and 3 do
\* not pass and give the low-confidence reason only.
ReasonsAreTheFailingCriteria ==
    /\ (runner = "process_single_video" /\ job_result[1].status = "success") =>
          LET r == job_result[1]
          IN  /\ r.quality_reasons =
                    FailingCriteria(r.confidence, r.offset,
                                    "Low confidence", "High offset")
              /\ (r.quality_reasons = <<>>) = r.passes_quality
              /\ IsSpecExample(r) =>
                    /\ ~r.passes_quality
                    /\ r.quality_reasons = <<"Low confidence">>
    /\ (/\ runner = "run_syncnet_pipeline"
        /\ job_result # <<>>
        /\ job_result[1].status = "success"
        /\ {"offset", "confidence"} \subseteq job_result[1].keys) =>
          LET r == job_result[1]
          IN  /\ (r.rejection_reason = <<>>) = (r.quality_status = "accepted")
              /\ ("rejection_reason" \in r.keys) = (r.quality_status = "rejected")
              /\ thresholds.filter_low_quality =>
                    r.rejection_reason =
                        FailingCriteria(r.confidence, r.offset,
                                        "low_confidence", "high_offset")
              /\ (thresholds.filter_low_quality /\ IsSpecExample(r)) =>
                    /\ r.quality_status = "rejected"
                    /\ r.rejection_reason = <<"low_confidence">>

\* The example of the specification, judged by process_single_video.
WitnessLowConfidenceOnly ==
    /\ runner = "process_single_video"
    /\ job_result[1].status = "success"
    /\ IsSpecExample(job_result[1])
    /\ job_result[1].quality_reasons = <<"Low confidence">>

VisualizingRunners ==
    {"process_single_video", "run_syncnet_pipeline", "run_syncnet_on_chunk"}

\* What a runner hands back for one job, the quality check of
\* process_long_video included.
OutcomeOf(by, env) ==
    IF by = "process_single_video"
    THEN ProcessSingleVideo(1, env, thresholds).ret
    ELSE IF by = "run_syncnet_pipeline"
    THEN LET ret == RunSyncnetPipeline(1, env).ret
         IN  IF ret = <<>> THEN <<>>
             ELSE <<EvaluateChunk(ret[1], thresholds)>>
    ELSE RunSyncnetOnChunk(1, env).ret

\* The terminal classification of a job: no result, or its status with its
\* verdict.
Classification(ret) ==
    IF ret = <<>> THEN <<"none">>
    ELSE <<ret[1].status, ret[1].passes_quality, ret[1].quality_status>>

\* C15: in process_single_video, run_syncnet_pipeline and
\* run_syncnet_on_chunk the visualization stage runs after scoring whatever
\* the verdict, and its exit code never changes how the job is classified:
\* the job ends as it would have with a visualization that exited 0.
VisualizationFailureIsNotFatal ==
    runner \in VisualizingRunners =>
        /\ Classification(job_result)
              = Classification(OutcomeOf(runner,
                                         [job_env EXCEPT !.viz_rc = 0]))
        /\ \A k \in 1..Len(job_stages) :
              job_stages[k].stage = "visualize" =>
                  /\ k > 1
                  /\ job_stages[k - 1] = Invoked("score", 0)
        /\ (job_result # <<>> /\ job_result[1].status = "success") =>
              job_stages[Len(job_stages)].stage = "visualize"

(***************************************************************************)
(* One batch under each batch runner                                       *)
(*                                                                         *)
(* filter_videos and batch_process_chunks submit every job to a pool of    *)
(* max_workers threads and collect the futures as they complete;           *)
(* process_long_video runs its chunks one after the other.  jobs[j] keeps  *)
(* what job j's runner returned and the tools it invoked, and whether the  *)
(* pass of the collection loop for it ended in the except branch.          *)
(***************************************************************************)
NumJobs == 3         \* files found by the batch runner
MaxWorkers == 2      \* largest max_workers

JobIds == 1..NumJobs

BatchFiles == {<<>>, <<WriteLine(0, -1, 7183)>>, <<WriteLine(0, 4, 3500)>>}

\* In a batch the visualization tool is taken to exit 0, and what a stage
\* would have done is left open only where a runner gets as far as to ask.
BatchEnvs ==
    {e \in EnvsOver(BatchFiles) :
        /\ e.viz_rc = 0
        /\ e.pre_rc # 0 => ~e.artifact
        /\ ~e.artifact => e.score_rc = 0
        /\ (~e.artifact \/ e.score_rc # 0) => ~e.offsets_exists}

PoolRunners == {"filter_videos", "batch_process_chunks"}

InitBatch ==
    /\ batch \in PoolRunners \cup {"process_long_video"}
    /\ max_workers \in (IF batch \in PoolRunners THEN 1..MaxWorkers ELSE {1})
    /\ keep_all \in (IF batch = "filter_videos" THEN BOOLEAN ELSE {FALSE})
    /\ thresholds \in {t \in ThresholdChoices :
                          /\ t.min_confidence = 5000
                          /\ t.max_abs_offset = 3
                          /\ (batch # "process_long_video"
                                => t.filter_low_quality)}
    /\ jobs = [j \in JobIds |-> [state |-> "pending", ret |-> <<>>,
                                 stages |-> <<>>, raised |-> FALSE]]
    /\ results = <<>>
    /\ completed = 0
    /\ accepted_chunks = <<>>
    /\ rejected_chunks = <<>>
    /\ summary = <<>>
    /\ copies = {}
    /\ loop_index = 0
    /\ finished_futures = <<>>
    /\ finished_before_loop = NotCollecting
    /\ runner = "none" /\ job_env = <<>> /\ job_result = <<>>
    /\ job_stages = <<>>
    /\ IdleParse /\ IdlePlan /\ IdleOrganize /\ IdleCli

Running == {j \in JobIds : jobs[j].state = "running"}

\* The for loop over as_completed(...) has ended.
AllReturned == \A j \in JobIds : jobs[j].state \in {"done", "collected"}
AllCollected == \A j \in JobIds : jobs[j].state = "collected"

jobRest == <<thresholds, runner, job_env, job_result, job_stages,
             parseVars, planVars, orgVars, cliVars>>

batchRest == <<finished_futures, finished_before_loop, jobRest>>

\* ThreadPoolExecutor(max_workers=max_workers): a thread of the pool is idle.
WorkerIdleAlways == TRUE
WorkerIdleButOne == Cardinality(Running) < max_workers - 1
WorkerIdle == Cardinality(Running) < max_workers

\* A worker thread takes the next submitted job from the executor's queue.
StartJob(j) ==
    /\ batch \in PoolRunners
    /\ jobs[j].state = "pending"
    /\ \A i \in 1..(j - 1) : jobs[i].state # "pending"
    /\ WorkerIdle
    /\ jobs' = [jobs EXCEPT ![j].state = "running"]
    /\ UNCHANGED <<batch, max_workers, keep_all, results, completed,
                   accepted_chunks, rejected_chunks, summary, copies,
                   loop_index, batchRest>>

\* The worker runs the job runner to its return.
FinishJob(j) ==
    /\ jobs[j].state = "running"
    /\ \E env \in BatchEnvs :
        LET out == IF batch = "filter_videos"
                   THEN ProcessSingleVideo(j, env, thresholds)
                   ELSE ProcessSingleChunk(j, env)
        IN  jobs' = [jobs EXCEPT ![j].state = "done", ![j].ret = out.ret,
                                 ![j].stages = out.stages]
    /\ finished_futures' = Append(finished_futures, j)
    /\ UNCHANGED <<batch, max_workers, keep_all, results, completed,
                   accepted_chunks, rejected_chunks, summary, copies,
                   loop_index, finished_before_loop, jobRest>>

\* The collector enters `for future in as_completed(...)`: the futures that
\* are finished at that moment are set aside to be yielded first.
StartCollecting ==
    /\ batch \in PoolRunners
    /\ finished_before_loop = NotCollecting
    /\ finished_before_loop' = Len(finished_futures)
    /\ UNCHANGED <<batch, max_workers, keep_all, jobs, results, completed,
                   accepted_chunks, rejected_chunks, summary, copies,
                   loop_index, finished_futures, jobRest>>

\* The futures as_completed found finished when the loop began and has not
\* yielded yet: they are yielded first, in the order of a set.
FinishedEarly ==
    {finished_futures[k] : k \in 1..finished_before_loop}

\* as_completed yields future j next: one of those finished before the loop
\* began, or, after them, the one that finished first.
YieldsAny(j) ==
    /\ finished_before_loop # NotCollecting
    /\ \E k \in 1..Len(finished_futures) : finished_futures[k] = j
YieldsNext(j) ==
    /\ finished_before_loop # NotCollecting
    /\ finished_futures # <<>>
    /\ \/ j \in FinishedEarly
       \/ finished_before_loop = 0 /\ j = Head(finished_futures)

Without(s, j) == SelectSeq(s, LAMBDA x : x # j)

\* Future j leaves as_completed.
Yielded(j) ==
    /\ finished_futures' = Without(finished_futures, j)
    /\ finished_before_loop' = IF j \in FinishedEarly
                               THEN finished_before_loop - 1
                               ELSE finished_before_loop

\* dst_dir = good_dir if result['passes_quality'] else poor_dir
DstDirAlwaysGood(result) == "good_quality"
DstDir(result) ==
    IF result.passes_quality THEN "good_quality" ELSE "poor_quality"

\* One pass of the collection loop of filter_videos.  The copy of the
\* source video may raise; the handler then counts the job again.
CollectVideo(j) ==
    /\ batch = "filter_videos"
    /\ YieldsNext(j)
    /\ \E copy_ok \in BOOLEAN :
        LET result == jobs[j].ret[1]
            copying == result.status = "success" /\ ~keep_all
            dst_dir == DstDir(result)
        IN  /\ copy_ok \/ copying
            /\ results' = Append(results, result)
            /\ completed' = IF copying /\ ~copy_ok THEN completed + 2
                            ELSE completed + 1
            /\ copies' = IF copying /\ copy_ok
                         THEN copies \cup {[dir |-> dst_dir, name |-> result.name]}
                         ELSE copies
            /\ jobs' = [jobs EXCEPT ![j].state = "collected",
                                    ![j].raised = copying /\ ~copy_ok]
    /\ Yielded(j)
    /\ UNCHANGED <<batch, max_workers, keep_all, accepted_chunks,
                   rejected_chunks, summary, loop_index, jobRest>>

\* f"...Conf={result.get('confidence', '?'):.3f}" raises ValueError on '?'
ProgressLineRaises(result) ==
    result.status = "success" /\ "confidence" \notin result.keys

ExceptionRecord(j) ==
    [NewResult(j) EXCEPT !.status = "exception",
                         !.error = "Unknown format code",
                         !.keys = {"error"}]

\* One pass of the collection loop of batch_process_chunks.
CollectChunk(j) ==
    /\ batch = "batch_process_chunks"
    /\ YieldsNext(j)
    /\ LET result == jobs[j].ret[1]
       IN  IF ProgressLineRaises(result)
           THEN /\ results' = Append(Append(results, result), ExceptionRecord(j))
                /\ completed' = completed + 2
           ELSE /\ results' = Append(results, result)
                /\ completed' = completed + 1
    /\ jobs' = [jobs EXCEPT ![j].state = "collected",
                            ![j].raised = ProgressLineRaises(jobs[j].ret[1])]
    /\ Yielded(j)
    /\ UNCHANGED <<batch, max_workers, keep_all, accepted_chunks,
                   rejected_chunks, summary, copies, loop_index, jobRest>>

CountStatus(rs, statuses) ==
    Cardinality({k \in 1..Len(rs) : rs[k].status \in statuses})

CountQuality(rs, passes) ==
    Cardinality({k \in 1..Len(rs) :
                    rs[k].status = "success" /\ rs[k].passes_quality = passes})

\* The summary of filter_videos, written to sync_filter_results.json.
WriteFilterResults ==
    /\ batch = "filter_videos"
    /\ AllCollected
    /\ summary = <<>>
    /\ summary' = <<[total_videos |-> NumJobs,
                     successful_processing |-> CountStatus(results, {"success"}),
                     good_quality |-> CountQuality(results, TRUE),
                     poor_quality |-> CountQuality(results, FALSE),
                     no_faces_detected |-> CountStatus(results, {"no_faces"}),
                     processing_failed |-> CountStatus(results, {"failed"}),
                     results |-> results]>>
    /\ UNCHANGED <<batch, max_workers, keep_all, jobs, results, completed,
                   accepted_chunks, rejected_chunks, copies, loop_index,
                   batchRest>>

\* The summary of batch_process_chunks, written to
\* batch_processing_summary.json.
WriteBatchSummary ==
    /\ batch = "batch_process_chunks"
    /\ AllCollected
    /\ summary = <<>>
    /\ summary' = <<[total_chunks |-> NumJobs,
                     successful |-> CountStatus(results, {"success"}),
                     no_faces |-> CountStatus(results, {"no_faces"}),
                     failed |-> CountStatus(results, {"failed", "exception"}),
                     results |-> results]>>
    /\ UNCHANGED <<batch, max_workers, keep_all, jobs, results, completed,
                   accepted_chunks, rejected_chunks, copies, loop_index,
                   batchRest>>

\* One pass of the loop over chunk_files in process_long_video.
ProcessNextChunk ==
    /\ batch = "process_long_video"
    /\ loop_index < NumJobs
    /\ \E env \in BatchEnvs :
        LET j == loop_index + 1
            out == RunSyncnetPipeline(j, env)
            syncnet_result ==
                EvaluateChunk([out.ret[1] EXCEPT !.chunk_index = loop_index],
                              thresholds)
        IN  /\ jobs' = [jobs EXCEPT ![j].state = "collected",
                                    ![j].ret = out.ret,
                                    ![j].stages = out.stages]
            /\ IF out.ret = <<>>
               THEN UNCHANGED <<results, accepted_chunks, rejected_chunks>>
               ELSE /\ results' = Append(results, syncnet_result)
                    /\ accepted_chunks' =
                           IF syncnet_result.quality_status = "accepted"
                           THEN Append(accepted_chunks, syncnet_result)
                           ELSE accepted_chunks
                    /\ rejected_chunks' =
                           IF syncnet_result.quality_status = "rejected"
                           THEN Append(rejected_chunks, syncnet_result)
                           ELSE rejected_chunks
    /\ loop_index' = loop_index + 1
    /\ UNCHANGED <<batch, max_workers, keep_all, completed, summary, copies,
                   batchRest>>

NamesOf(rs) == [k \in 1..Len(rs) |-> rs[k].name]

\* After the loop of process_long_video: the filtered copies, then
\* processing_summary.json.
WriteProcessingSummary ==
    /\ batch = "process_long_video"
    /\ loop_index = NumJobs
    /\ summary = <<>>
    /\ copies' = IF thresholds.filter_low_quality
                 THEN {[dir |-> "filtered_chunks", name |-> accepted_chunks[k].name] :
                          k \in 1..Len(accepted_chunks)}
                 ELSE copies
    /\ summary' = <<[total_chunks |-> NumJobs,
                     successful_analysis |-> CountStatus(results, {"success"}),
                     no_faces_chunks |-> CountStatus(results, {"no_faces"}),
                     accepted_chunks |-> NamesOf(accepted_chunks),
                     rejected_chunks |-> NamesOf(rejected_chunks),
                     results |-> results]>>
    /\ UNCHANGED <<batch, max_workers, keep_all, jobs, results, completed,
                   accepted_chunks, rejected_chunks, loop_index, batchRest>>

NextBatch ==
    \/ \E j \in JobIds : StartJob(j)
    \/ \E j \in JobIds : FinishJob(j)
    \/ StartCollecting
    \/ \E j \in JobIds : CollectVideo(j)
    \/ \E j \in JobIds : CollectChunk(j)
    \/ WriteFilterResults
    \/ WriteBatchSummary
    \/ ProcessNextChunk
    \/ WriteProcessingSummary

SpecBatch == InitBatch /\ [][NextBatch]_vars

RecordsOf(rs, j) == {k \in 1..Len(rs) : rs[k].name = j}

PreprocessingFailed(j) ==
    jobs[j].stages # <<>> /\ jobs[j].stages[1].rc # 0

\* C3: the persisted results hold every job; a job whose preprocessing
\* exited non-zero is there as a failure with a message, every job that
\* returned a result is there with its own outcome.
FailedJobIsReported ==
    summary # <<>> =>
        \A j \in JobIds :
            /\ RecordsOf(summary[1].results, j) # {}
            /\ PreprocessingFailed(j) =>
                   \E k \in RecordsOf(summary[1].results, j) :
                       /\ summary[1].results[k].status = "failed"
                       /\ "error" \in summary[1].results[k].keys
            /\ jobs[j].ret # <<>> =>
                   \E k \in RecordsOf(summary[1].results, j) :
                       summary[1].results[k].status = jobs[j].ret[1].status

\* C4: after the collection loop, results holds exactly one record per
\* submitted job.
OneRecordPerJob ==
    (batch \in PoolRunners /\ AllCollected) =>
        \A j \in JobIds : Cardinality(RecordsOf(results, j)) = 1

\* C5: the counts of a persisted report add up and equal the numbers of
\* records with each outcome.
ReportCountsConsistent ==
    /\ (batch = "filter_videos" /\ summary # <<>>) =>
          LET s == summary[1] IN
          /\ s.total_videos = s.successful_processing + s.no_faces_detected
                                  + s.processing_failed
          /\ s.successful_processing = s.good_quality + s.poor_quality
          /\ s.total_videos = Len(s.results)
          /\ s.successful_processing = CountStatus(s.results, {"success"})
          /\ s.no_faces_detected = CountStatus(s.results, {"no_faces"})
          /\ s.processing_failed = CountStatus(s.results, {"failed"})
    /\ (batch = "batch_process_chunks" /\ summary # <<>>) =>
          LET s == summary[1] IN
          /\ s.total_chunks = s.successful + s.no_faces + s.failed
          /\ s.total_chunks = Len(s.results)
          /\ s.successful = CountStatus(s.results, {"success"})
          /\ s.no_faces = CountStatus(s.results, {"no_faces"})
          /\ s.failed = CountStatus(s.results, {"failed", "exception"})

(***************************************************************************)
(* The overlapping time-based chunk planners                               *)
(*                                                                         *)
(* cut_video_chunks (process_long_video.py) and the chunk-time command     *)
(* (video_utils.py).  Neither checks overlap against the chunk duration,   *)
(* so every overlap the command line accepts is an input.  commands holds  *)
(* the ffmpeg extractions run so far, chunk_files the chunks whose         *)
(* extraction exited 0.                                                    *)
(***************************************************************************)
MaxDuration == 16         \* longest video, seconds
MaxChunkDuration == 7     \* longest chunk_duration
MaxOverlap == 8           \* largest overlap
MaxExtractFailures == 1   \* extractions that may exit non-zero in one run

\* Loops that never end by themselves are followed this far.
MaxIterations == MaxDuration + 1

MinChunkDuration == 5

\* The inputs of section 8 of the specification.
SpecExamples == {<<75, 30, 5>>, <<32, 30, 5>>, <<27, 30, 5>>}

PlanInputs ==
    ((1..MaxDuration) \X (1..MaxChunkDuration) \X (0..MaxOverlap))
    \cup SpecExamples

Planners == {"cut_video_chunks", "chunk_time"}

InitPlan ==
    /\ planner \in Planners
    /\ \E in \in PlanInputs :
        /\ total_duration = in[1]
        /\ chunk_duration = in[2]
        /\ overlap = in[3]
    /\ start_time = 0
    /\ chunk_num = 0
    /\ chunk_files = <<>>
    /\ commands = <<>>
    /\ plan_pc = "loop"
    /\ first_plan = <<>>
    /\ iterations = 0
    /\ IdleParse /\ IdleJob /\ IdleBatch /\ IdleOrganize /\ IdleCli

Min(a, b) == IF a <= b THEN a ELSE b

\* end_time = min(start_time + chunk_duration, total_duration)
EndTime == Min(start_time + chunk_duration, total_duration)

\* actual_duration = min(chunk_duration, remaining)
ActualDuration == Min(chunk_duration, total_duration - start_time)

\* start_time += chunk_duration - overlap
NextStartWithoutOverlap == start_time + chunk_duration
NextStartOverlapTwice == start_time + chunk_duration - 2 * overlap
NextStart == start_time + chunk_duration - overlap

\* if actual_duration < 5: break
TooShortIfAtMost(duration) == duration <= MinChunkDuration
TooShort(duration) == duration < MinChunkDuration

ExtractFailures == Len(commands) - Len(chunk_files)

\* ffmpeg -ss start -t duration ... chunk_<num>.mp4, and whether it exited 0
Extraction(num, start, duration, ok) ==
    [num |-> num, start |-> start, duration |-> duration, ok |-> ok]

Chunk(num, start, end) == [num |-> num, start |-> start, end |-> end]

planInputs ==
    <<planner, total_duration, chunk_duration, overlap, first_plan, iterations>>

Extract(duration, end) ==
    \E ok \in BOOLEAN :
        /\ ok \/ ExtractFailures < MaxExtractFailures
        /\ commands' = Append(commands,
                              Extraction(chunk_num, start_time, duration, ok))
        /\ chunk_files' = IF ok
                          THEN Append(chunk_files,
                                      Chunk(chunk_num, start_time, end))
                          ELSE chunk_files
        /\ chunk_num' = chunk_num + 1
        /\ start_time' = NextStart
        /\ UNCHANGED plan_pc

\* One pass of the while loop of cut_video_chunks.
CutNextChunk ==
    /\ planner = "cut_video_chunks"
    /\ plan_pc = "loop"
    /\ chunk_num < MaxIterations
    /\ start_time < total_duration
    /\ IF TooShort(EndTime - start_time)
       THEN /\ plan_pc' = "done"
            /\ UNCHANGED <<start_time, chunk_num, chunk_files, commands>>
       ELSE Extract(EndTime - start_time, EndTime)
    /\ UNCHANGED <<planInputs, parseVars, jobVars, batchVars, orgVars, cliVars>>

\* One pass of the while loop of the chunk-time command.
ChunkTimeNextChunk ==
    /\ planner = "chunk_time"
    /\ plan_pc = "loop"
    /\ chunk_num < MaxIterations
    /\ start_time < total_duration
    /\ IF TooShort(ActualDuration)
       THEN /\ plan_pc' = "done"
            /\ UNCHANGED <<start_time, chunk_num, chunk_files, commands>>
       ELSE Extract(ActualDuration, start_time + ActualDuration)
    /\ UNCHANGED <<planInputs, parseVars, jobVars, batchVars, orgVars, cliVars>>

\* while start_time < total_duration: the loop of either planner ends.
PlanLoopEnds ==
    /\ plan_pc = "loop"
    /\ ~(start_time < total_duration)
    /\ plan_pc' = "done"
    /\ UNCHANGED <<start_time, chunk_num, chunk_files, commands, planInputs,
                   parseVars, jobVars, batchVars, orgVars, cliVars>>

NextPlan == CutNextChunk \/ ChunkTimeNextChunk \/ PlanLoopEnds

SpecPlan == InitPlan /\ [][NextPlan]_vars

ValidPlanInput ==
    total_duration > 0 /\ chunk_duration > 0
    /\ 0 <= overlap /\ overlap < chunk_duration

Step == chunk_duration - overlap

PlannedStart(k) == k * Step

PlannedEnd(k) == Min(k * Step + chunk_duration, total_duration)

Stops(k) ==
    \/ PlannedEnd(k) - PlannedStart(k) < 5
    \/ PlannedStart(k) >= total_duration

Intervals == [k \in 1..Len(commands) |->
                 <<commands[k].start, commands[k].start + commands[k].duration>>]

\* C9: with valid input cut_video_chunks plans chunk k as
\* [k(L-o), min(k(L-o)+L, D)) and ends at the first k whose interval is
\* shorter than 5 s or starts at or after D.
PlanMatchesClosedForm ==
    (planner = "cut_video_chunks" /\ ValidPlanInput) =>
        /\ \A k \in 1..Len(commands) :
              /\ commands[k].num = k - 1
              /\ Intervals[k] = <<PlannedStart(k - 1), PlannedEnd(k - 1)>>
              /\ ~Stops(k - 1)
        /\ plan_pc = "done" =>
              /\ Stops(Len(commands))
              /\ <<total_duration, chunk_duration, overlap>> = <<75, 30, 5>>
                    => Intervals = << <<0, 30>>, <<25, 55>>, <<50, 75>> >>
              /\ <<total_duration, chunk_duration, overlap>> = <<32, 30, 5>>
                    => Len(commands) = 2
              /\ <<total_duration, chunk_duration, overlap>> = <<27, 30, 5>>
                    => Len(commands) = 1

\* The 75 s video cut into its three chunks.
WitnessThreeChunksOf75 ==
    /\ planner = "cut_video_chunks"
    /\ plan_pc = "done"
    /\ <<total_duration, chunk_duration, overlap>> = <<75, 30, 5>>
    /\ Len(chunk_files) = 3

\* C10: every chunk a planner extracted lies inside the video and lasts at
\* least 5 s.
ExtractedChunksAreValid ==
    \A k \in 1..Len(chunk_files) :
        /\ 0 <= chunk_files[k].start
        /\ chunk_files[k].start < chunk_files[k].end
        /\ chunk_files[k].end <= total_duration
        /\ chunk_files[k].end - chunk_files[k].start >= 5

CutEnd(k) == commands[k].start + commands[k].duration

\* The pairs of chunks with consecutive numbers that were both extracted.
ConsecutiveFiles ==
    {p \in (1..Len(chunk_files)) \X (1..Len(chunk_files)) :
        chunk_files[p[2]].num = chunk_files[p[1]].num + 1}

\* C11 as stated: with valid input every two consecutive chunks of
\* cut_video_chunks overlap by exactly `overlap` seconds, the last pair
\* included.
ConsecutiveChunksOverlapExactly ==
    (planner = "cut_video_chunks" /\ ValidPlanInput) =>
        \A p \in ConsecutiveFiles :
            chunk_files[p[1]].end - chunk_files[p[2]].start = overlap

\* C11: with valid input chunk i of cut_video_chunks and chunk i+1 overlap by
\* exactly `overlap` seconds when chunk i has the full chunk length; when
\* chunk i is cut short by the end of the video they overlap by the whole of
\* chunk i+1, which is at least 5 s and less than `overlap`.
OverlapExactUnlessTruncated ==
    (planner = "cut_video_chunks" /\ ValidPlanInput) =>
        \A k \in 1..(Len(commands) - 1) :
            LET shared == CutEnd(k) - commands[k + 1].start
            IN  IF commands[k].duration = chunk_duration
                THEN shared = overlap
                ELSE /\ CutEnd(k) = total_duration
                     /\ shared = commands[k + 1].duration
                     /\ MinChunkDuration <= shared
                     /\ shared < overlap

\* A finished run whose last chunk is cut short by the end of the video and
\* still shares exactly `overlap` seconds with the chunk before it.
WitnessLastPairOverlaps ==
    /\ planner = "cut_video_chunks"
    /\ ValidPlanInput
    /\ plan_pc = "done"
    /\ overlap > 0
    /\ Len(commands) >= 2
    /\ commands[Len(commands)].duration < chunk_duration
    /\ CutEnd(Len(commands) - 1) - commands[Len(commands)].start = overlap

\* The seconds of the video some extracted chunk holds.
Covered ==
    {t \in 0..(total_duration - 1) :
        \E k \in 1..Len(chunk_files) :
            chunk_files[k].start <= t /\ t < chunk_files[k].end}

\* The end of the last extracted chunk, 0 without chunks.
CoveredEnd ==
    IF chunk_files = <<>> THEN 0 ELSE chunk_files[Len(chunk_files)].end

GapFreeUpToShortTail ==
    /\ Covered = 0..(CoveredEnd - 1)
    /\ CoveredEnd <= total_duration
    /\ total_duration - CoveredEnd < MinChunkDuration
    /\ \A k \in 1..(Len(chunk_files) - 1) :
          chunk_files[k + 1].start <= chunk_files[k].end

AllExtracted == plan_pc = "done" /\ ExtractFailures = 0

\* C12 as stated: for every valid input, when every extraction succeeds, the
\* chunks of cut_video_chunks cover one gap-free interval [0, E) with
\* E <= total_duration and total_duration - E < 5.
CoverageForEveryValidInput ==
    (planner = "cut_video_chunks" /\ ValidPlanInput /\ AllExtracted) =>
        GapFreeUpToShortTail

\* C12: for every valid input whose chunk length is at least the 5 s
\* minimum, when every extraction succeeds, the chunks of cut_video_chunks
\* cover one gap-free interval [0, E) with E <= total_duration and
\* total_duration - E < 5.
CoverageWhenChunkLengthAtLeastMinimum ==
    (/\ planner = "cut_video_chunks"
     /\ ValidPlanInput
     /\ chunk_duration >= MinChunkDuration
     /\ AllExtracted) =>
        GapFreeUpToShortTail

\* A finished run that leaves a tail of the video uncovered.
WitnessUncoveredTail ==
    /\ planner = "cut_video_chunks"
    /\ ValidPlanInput
    /\ chunk_duration >= MinChunkDuration
    /\ AllExtracted
    /\ Len(chunk_files) >= 2
    /\ 0 < total_duration - CoveredEnd

\* C13: a planner called with overlap >= chunk_duration extracts nothing.
InvalidOverlapStartsNoWork ==
    overlap >= chunk_duration => commands = <<>>

(***************************************************************************)
(* The worker pool of filter_videos and batch_process_chunks               *)
(***************************************************************************)
Started(j) == jobs[j].state # "pending"

\* Job j is taken by a worker in this step.
Starts(j) == jobs[j].state # "running" /\ jobs'[j].state = "running"

NoJobStartsAgain ==
    batch \in PoolRunners => \A j \in JobIds : Starts(j) => ~Started(j)

\* C16: never more than max_workers jobs are running at the same moment,
\* and every submitted job is started exactly once: a job that has been
\* started is never started again, and when the report is written every
\* job has been started.
BoundedPoolStartsEachJobOnce ==
    /\ [](batch \in PoolRunners =>
            /\ Cardinality(Running) <= max_workers
            /\ (summary # <<>> => \A j \in JobIds : Started(j)))
    /\ [][NoJobStartsAgain]_vars

\* Every worker is busy while a submitted job still waits.
WitnessPoolSaturated ==
    /\ batch \in PoolRunners
    /\ Cardinality(Running) = max_workers
    /\ max_workers = MaxWorkers
    /\ \E j \in JobIds : ~Started(j)

(***************************************************************************)
(* The good_quality / poor_quality partition of filter_videos              *)
(***************************************************************************)
CopiedTo(dir, j) == [dir |-> dir, name |-> j] \in copies

MaxFiles == 2        \* files in the input directory

Name(token) == <<token>>

FileName(stem, ext) == <<stem, ext>>

PossibleFiles ==
    {FileName("chunk_000", ".avi"), FileName("chunk_000", ".mp4"),
     FileName("clip", ".mp4"), FileName("notes", ".txt")}

\* The order of sorted() on the file names of the model.
SortedNames ==
    <<FileName("chunk_000", ".avi"), FileName("chunk_000", ".mp4"),
      FileName("clip", ".mp4"), FileName("notes", ".txt")>>

video_extensions == {".mp4", ".avi", ".mov", ".mkv", ".mp3", ".wav"}

upper_extensions == {".MP4", ".AVI", ".MOV", ".MKV", ".MP3", ".WAV"}

\* Path(input_dir).glob('*' + ext) over all extensions, as a set
Glob(files) ==
    {f \in files : f[Len(f)] \in video_extensions \cup upper_extensions}

\* sorted(set(video_files))
Sorted(files) == SelectSeq(SortedNames, LAMBDA f : f \in files)

\* Path(video_path).stem
Stem(f) == SubSeq(f, 1, Len(f) - 1)

VideoName(video_path) == Stem(video_path)

OutputDir == <<Name("results")>>

TempDir == OutputDir \o <<Name("temp")>>

\* temp_video_dir = os.path.join(temp_dir, video_name)
TempVideoDir(video_path) == TempDir \o <<VideoName(video_path)>>

SyncnetOutputsDir(root, video_name) ==
    root \o <<Name("syncnet_outputs"), video_name>>

QualityDir(dir) == OutputDir \o <<Name(dir)>>

\* dst_path = os.path.join(dst_dir, os.path.basename(src_path))
VideoDst(dir, video_path) == QualityDir(dir) \o <<video_path>>

ResultsFile == OutputDir \o <<FileName("sync_filter_results", ".json")>>

EmptyDisk == [files |-> {}, dirs |-> {}]

Prefixes(path) == {SubSeq(path, 1, k) : k \in 1..Len(path)}

\* os.makedirs(path, exist_ok=True)
MakeDirs(d, path) == [d EXCEPT !.dirs = @ \cup Prefixes(path)]

\* shutil.copy2 to dst, when it does not raise
Copy2(d, dst) == [d EXCEPT !.files = @ \cup {dst}]

IsUnder(p, dir) == Len(p) > Len(dir) /\ SubSeq(p, 1, Len(dir)) = dir

\* shutil.rmtree(dir)
RmTree(d, dir) ==
    [files |-> {p \in d.files : ~IsUnder(p, dir)},
     dirs |-> {p \in d.dirs : p # dir /\ ~IsUnder(p, dir)}]

\* os.listdir(dir), as a set of paths
ListDir(d, dir) ==
    {p \in d.files \cup d.dirs : IsUnder(p, dir) /\ Len(p) = Len(dir) + 1}

\* The orders in which os.listdir may return the entries.
Orders(S) ==
    {o \in [1..Cardinality(S) -> S] :
        \A i, j \in 1..Cardinality(S) : i # j => o[i] # o[j]}

Rebase(p, src, dst) == dst \o SubSeq(p, Len(src) + 1, Len(p))

MkDirStep(dst) == [kind |-> "makedirs", dst |-> dst, key |-> ""]
CopyStep(dst) == [kind |-> "copy2", dst |-> dst, key |-> ""]
KeyStep(key) == [kind |-> "key", dst |-> <<>>, key |-> key]

If(cond, steps) == IF cond THEN steps ELSE <<>>

AnalysisFiles ==
    <<FileName("offsets", ".txt"), FileName("tracks", ".pckl"),
      FileName("faces", ".pckl"), FileName("scene", ".pckl"),
      FileName("activesd", ".pckl")>>

\* Which analysis file the tools left in pywork.
InPywork(env, k) ==
    IF k = 1 THEN env.offsets_exists
    ELSE IF k = 2 THEN env.artifact
    ELSE IF k = 5 THEN env.pre_rc = 0 /\ env.score_rc = 0
    ELSE env.pre_rc = 0

RECURSIVE AnalysisSteps(_, _, _)
AnalysisSteps(analysis_dir, env, k) ==
    IF k > Len(AnalysisFiles) THEN <<>>
    ELSE If(InPywork(env, k), <<CopyStep(analysis_dir \o <<AnalysisFiles[k]>>)>>)
         \o AnalysisSteps(analysis_dir, env, k + 1)

BBoxName(video_name) == video_name \o <<"_with_bboxes", ".avi">>

\* The body of _preserve_syncnet_outputs, in the order of the code.
PreserveSteps(video_name, env) ==
    LET syncnet_outputs_dir == SyncnetOutputsDir(OutputDir, video_name)
        crop_output_dir == syncnet_outputs_dir \o <<Name("cropped_faces")>>
        analysis_dir == syncnet_outputs_dir \o <<Name("analysis")>>
    IN  <<MkDirStep(syncnet_outputs_dir)>>
        \o If(env.artifact,
              <<MkDirStep(crop_output_dir),
                CopyStep(crop_output_dir \o <<FileName("00000", ".avi")>>),
                KeyStep("cropped_faces_saved")>>)
        \o If(env.viz_rc = 0,
              <<CopyStep(syncnet_outputs_dir \o <<BBoxName(video_name)>>),
                KeyStep("bbox_video_saved")>>)
        \o <<MkDirStep(analysis_dir)>>
        \o AnalysisSteps(analysis_dir, env, 1)
        \o <<KeyStep("analysis_files_saved")>>

\* The steps run in order until a copy raises.
RECURSIVE RunSteps(_, _, _)
RunSteps(steps, d, keys) ==
    IF steps = <<>> THEN [disk |-> d, keys |-> keys, raised |-> FALSE]
    ELSE LET st == Head(steps)
         IN  IF st.kind = "makedirs"
             THEN RunSteps(Tail(steps), MakeDirs(d, st.dst), keys)
             ELSE IF st.kind = "key"
             THEN RunSteps(Tail(steps), d, keys \cup {st.key})
             ELSE IF st.dst \in unwritable
             THEN [disk |-> d, keys |-> keys, raised |-> TRUE]
             ELSE RunSteps(Tail(steps), Copy2(d, st.dst), keys)

\* _preserve_syncnet_outputs: the result and the disk it leaves
PreserveSyncnetOutputs(result, env, d) ==
    LET run == RunSteps(PreserveSteps(result.name, env), d, result.keys)
    IN  [disk |-> run.disk,
         result |-> [result EXCEPT
                       !.keys = run.keys \cup (IF run.raised
                                               THEN {"preservation_error"}
                                               ELSE {})]]

\* shutil.copytree(src, dst, dirs_exist_ok=True): every file that can be
\* copied is copied, then the errors are raised together.
CopyTree(d, src, dst) ==
    LET below == {p \in d.files \cup d.dirs : IsUnder(p, src)}
        copied == {Rebase(p, src, dst) : p \in below \cap d.files} \ unwritable
    IN  [disk |-> [files |-> d.files \cup copied,
                   dirs |-> d.dirs \cup {dst}
                                   \cup {Rebase(p, src, dst) :
                                            p \in below \cap d.dirs}],
         raised |-> \E p \in below \cap d.files :
                       Rebase(p, src, dst) \in unwritable]

\* The loop of _copy_syncnet_outputs_to_quality_dir over the listed items,
\* left at the first exception.
RECURSIVE CopyItems(_, _, _, _)
CopyItems(items, d, src, dst) ==
    IF items = <<>> THEN d
    ELSE LET src_path == Head(items)
             dst_path == Rebase(src_path, src, dst)
         IN  IF src_path \in d.dirs
             THEN LET tree == CopyTree(d, src_path, dst_path)
                  IN  IF tree.raised THEN tree.disk
                      ELSE CopyItems(Tail(items), tree.disk, src, dst)
             ELSE IF dst_path \in unwritable THEN d
             ELSE CopyItems(Tail(items), Copy2(d, dst_path), src, dst)

\* _copy_syncnet_outputs_to_quality_dir, listing the source in order `items`
CopySyncnetOutputsToQualityDir(result, quality_dir, d, items) ==
    LET syncnet_source_dir == SyncnetOutputsDir(OutputDir, result.name)
        quality_syncnet_dir == SyncnetOutputsDir(quality_dir, result.name)
    IN  IF syncnet_source_dir \in d.dirs
        THEN CopyItems(items, MakeDirs(d, quality_syncnet_dir),
                       syncnet_source_dir, quality_syncnet_dir)
        ELSE d

\* --- DirectoryPreparer (directory_prepare.py)
PreparerInputDir == QualityDir("good_quality")

OrganizedDir == <<Name("organized")>>

\* self.video_id = video_id or Path(output_dir).name
video_id == "organized"

\* item.name.startswith('chunk_'), on the stems of the model
StartsWithChunk(name) == name[1] \in {"chunk_000"}

\* _get_output_name
OutputName(chunk_name) == <<video_id, "_">> \o chunk_name

\* _get_chunk_list, as a set
ChunkList(d) ==
    {p[Len(p)] : p \in {q \in ListDir(d, PreparerInputDir
                                          \o <<Name("syncnet_outputs")>>) :
                           q \in d.dirs /\ StartsWithChunk(q[Len(q)])}}

\* The source and the destination of the four operations of
\* _process_single_chunk.
ChunkOperations(chunk_name) ==
    LET outputs == PreparerInputDir \o <<Name("syncnet_outputs"), chunk_name>>
        normal == PreparerInputDir \o <<chunk_name \o <<".mp4">> >>
        Op(src, dir, name) ==
            [src |-> src, dst |-> OrganizedDir \o <<Name(dir), name>>]
    IN  {Op(normal, "video_normal", OutputName(chunk_name) \o <<".mp4">>),
         Op(outputs \o <<BBoxName(chunk_name)>>, "video_bbox",
            OutputName(chunk_name) \o <<"_with_bboxes", ".mp4">>),
         Op(outputs \o <<Name("cropped_faces"), FileName("00000", ".avi")>>,
            "video_cropped", OutputName(chunk_name) \o <<".mp4">>),
         Op(normal, "audio", OutputName(chunk_name) \o <<".wav">>)}

\* _validate_input
ValidPreparerInput(d) ==
    /\ PreparerInputDir \in d.dirs
    /\ PreparerInputDir \o <<Name("syncnet_outputs")>> \in d.dirs

\* prepare_directories, from the construction of the DirectoryPreparer on
PrepareDirectoriesOn(d) ==
    IF ~ValidPreparerInput(d) THEN d
    ELSE [files |-> d.files \cup
                    {op.dst : op \in
                        {o \in UNION {ChunkOperations(c) : c \in ChunkList(d)} :
                            o.src \in d.files /\ o.dst \notin unwritable}},
          dirs |-> d.dirs \cup {OrganizedDir}
                   \cup {OrganizedDir \o <<Name(n)>> :
                           n \in {"video_normal", "video_bbox",
                                  "video_cropped", "audio"}}]

\* --- the runs
\* How the tools may behave on one video: preprocessing fails, finds no
\* face, or scoring writes a good or a poor track, with or without a
\* visualization.
OrgEnvs ==
    {e \in EnvsOver(BatchFiles) :
        /\ e.score_rc = 0
        /\ e.pre_rc # 0 => ~e.artifact
        /\ ~e.artifact => (~e.offsets_exists /\ e.viz_rc = 0)
        /\ e.artifact => (e.offsets_exists /\ e.offsets # <<>>)}

AllToolsSucceed ==
    [pre_rc |-> 0, artifact |-> TRUE, score_rc |-> 0, offsets_exists |-> TRUE,
     offsets |-> <<WriteLine(0, -1, 7183)>>, viz_rc |-> 0]

CopyDsts(steps) ==
    {steps[k].dst : k \in {i \in 1..Len(steps) : steps[i].kind = "copy2"}}

\* Every path one of the copies or conversions for video_path may write.
DestinationsOf(video_path) ==
    LET video_name == VideoName(video_path)
        preserved == CopyDsts(PreserveSteps(video_name, AllToolsSucceed))
    IN  preserved
        \cup UNION {{VideoDst(dir, video_path)}
                    \cup {Rebase(p, OutputDir, QualityDir(dir)) : p \in preserved} :
                       dir \in {"good_quality", "poor_quality"}}
        \cup {op.dst : op \in ChunkOperations(video_name)}

InitOrganize ==
    /\ input_dir \in {S \in SUBSET PossibleFiles :
                        Cardinality(S) \in 1..MaxFiles}
    /\ tool_env \in [Glob(input_dir) -> OrgEnvs]
    /\ unwritable \in {{}} \cup {{p} : p \in UNION {DestinationsOf(v) :
                                                       v \in Glob(input_dir)}}
                       \cup {{TempVideoDir(v)} : v \in Glob(input_dir)}
    /\ video_files = <<>>
    /\ org_results = <<>>
    /\ org_index = 0
    /\ org_pc = "find"
    /\ run_number = 1
    /\ disk = EmptyDisk
    /\ disk_after_first = EmptyDisk
    /\ temp_dir = <<>>
    /\ keep_all \in BOOLEAN
    /\ thresholds = [min_confidence |-> 5000, max_abs_offset |-> 3,
                     filter_low_quality |-> TRUE]
    /\ batch = "none" /\ max_workers = 0 /\ jobs = <<>> /\ results = <<>>
    /\ completed = 0 /\ accepted_chunks = <<>> /\ rejected_chunks = <<>>
    /\ summary = <<>> /\ copies = {} /\ loop_index = 0
    /\ finished_futures = <<>> /\ finished_before_loop = NotCollecting
    /\ runner = "none" /\ job_env = <<>> /\ job_result = <<>>
    /\ job_stages = <<>>
    /\ IdleParse /\ IdlePlan /\ IdleCli

orgRest == <<input_dir, tool_env, unwritable, run_number, disk_after_first,
             temp_dir,
             thresholds, runner, parseVars, batchVars, planVars, cliVars>>

\* if result['status'] == 'success': self._preserve_syncnet_outputs(...)
PreserveAlways(result) == TRUE
PreserveWhen(result) == result.status = "success"

\* shutil.rmtree(dir) inside try / except: pass; a removal that raises is
\* taken to leave the tree as it was.
TryRmTree(d, dir) == IF dir \in unwritable THEN d ELSE RmTree(d, dir)

\* What the finally block of process_single_video did, in order.
FinallySteps(preserved, kept, temp_video_dir) ==
    (IF preserved
     THEN <<Invoked("preserve",
                    IF "preservation_error" \in kept.result.keys THEN 1 ELSE 0)>>
     ELSE <<>>)
    \o <<Invoked("rmtree", IF temp_video_dir \in unwritable THEN 1 ELSE 0)>>

\* filter_videos up to the creation of its directories.
FindVideoFiles ==
    /\ org_pc = "find"
    /\ video_files' = Sorted(Glob(input_dir))
    /\ IF video_files' = <<>>
       THEN /\ org_pc' = "prepare"
            /\ UNCHANGED <<disk, org_index>>
       ELSE /\ org_pc' = "process"
            /\ org_index' = 1
            /\ disk' =
                 LET d0 == MakeDirs(disk, OutputDir)
                     d1 == IF keep_all THEN d0
                           ELSE MakeDirs(MakeDirs(d0, QualityDir("good_quality")),
                                         QualityDir("poor_quality"))
                 IN  MakeDirs(d1, TempDir)
    /\ org_results' = <<>>
    /\ UNCHANGED <<job_env, job_result, job_stages, orgRest>>

\* process_single_video on the next video, its finally block included.
ProcessVideo ==
    /\ org_pc = "process"
    /\ LET video_path == video_files[org_index]
           env == tool_env[video_path]
           temp_video_dir == TempVideoDir(video_path)
           d0 == MakeDirs(disk, temp_video_dir)
       IN  \E out \in {ProcessSingleVideo(VideoName(video_path), env,
                                          thresholds)} :
           \E result \in {out.ret[1]} :
           \E kept \in {IF PreserveWhen(result)
                        THEN PreserveSyncnetOutputs(result, env, d0)
                        ELSE [disk |-> d0, result |-> result]} :
               /\ job_env' = env
               /\ job_result' = <<kept.result>>
               /\ job_stages' = out.stages
                                 \o FinallySteps(PreserveWhen(result), kept,
                                                 temp_video_dir)
               /\ disk' = TryRmTree(kept.disk, temp_video_dir)
    /\ org_pc' = "collect"
    /\ UNCHANGED <<video_files, org_results, org_index, orgRest>>

\* One pass of the collection loop of filter_videos: the record, then the
\* copies into good_quality or poor_quality.
CollectVideoResult ==
    /\ org_pc = "collect"
    /\ LET result == job_result[1]
           video_path == video_files[org_index]
           dst_dir == QualityDir(DstDir(result))
           dst_path == VideoDst(DstDir(result), video_path)
       IN  /\ org_results' = Append(org_results, result)
           /\ IF result.status = "success" /\ ~keep_all
                 /\ dst_path \notin unwritable
              THEN \E items \in Orders(ListDir(disk,
                                  SyncnetOutputsDir(OutputDir, result.name))) :
                      disk' = CopySyncnetOutputsToQualityDir(
                                  result, dst_dir, Copy2(disk, dst_path), items)
              ELSE UNCHANGED disk
    /\ org_index' = org_index + 1
    /\ org_pc' = IF org_index = Len(video_files) THEN "report" ELSE "process"
    /\ UNCHANGED <<video_files, job_env, job_result, job_stages, orgRest>>

\* The end of filter_videos: temp removed, sync_filter_results.json written.
WriteSyncFilterResults ==
    /\ org_pc = "report"
    /\ disk' = Copy2(TryRmTree(disk, TempDir), ResultsFile)
    /\ org_pc' = "prepare"
    /\ UNCHANGED <<video_files, org_results, org_index, job_env, job_result,
                   job_stages, orgRest>>

\* DirectoryPreparer(results/good_quality, organized).prepare_directories()
PrepareDirectories ==
    /\ org_pc = "prepare"
    /\ disk' = PrepareDirectoriesOn(disk)
    /\ org_pc' = "finished"
    /\ UNCHANGED <<video_files, org_results, org_index, job_env, job_result,
                   job_stages, orgRest>>

\* Both programs are run again on the same input and output directories.
RunAgain ==
    /\ org_pc = "finished"
    /\ run_number = 1
    /\ run_number' = 2
    /\ disk_after_first' = disk
    /\ org_pc' = "find"
    /\ UNCHANGED <<input_dir, tool_env, unwritable, video_files, org_results,
                   org_index, disk, temp_dir, jobVars, parseVars, batchVars,
                   planVars, cliVars>>

NextOrganize ==
    \/ FindVideoFiles
    \/ ProcessVideo
    \/ CollectVideoResult
    \/ WriteSyncFilterResults
    \/ PrepareDirectories
    \/ RunAgain

SpecOrganize == InitOrganize /\ [][NextOrganize]_vars

\* C17: any two distinct input files found by filter_videos have different
\* reference names and different temporary directories.
JobsHaveOwnNameAndDirectory ==
    \A i, j \in 1..Len(video_files) :
        i # j =>
            /\ VideoName(video_files[i]) # VideoName(video_files[j])
            /\ TempVideoDir(video_files[i]) # TempVideoDir(video_files[j])

FirstRunFiltered ==
    run_number = 1 /\ org_pc \in {"prepare", "finished"} /\ video_files # <<>>

\* The artifacts filter_videos is to copy for the video at position k: what
\* the tools left for _preserve_syncnet_outputs and, unless keep_all, the
\* source video and the preserved outputs in its quality directory.
ArtifactsToCopy(k) ==
    LET video_path == video_files[k]
        preserved == CopyDsts(PreserveSteps(VideoName(video_path),
                                            tool_env[video_path]))
        dir == DstDir(org_results[k])
    IN  preserved
        \cup (IF keep_all THEN {}
              ELSE {VideoDst(dir, video_path)}
                   \cup {Rebase(p, OutputDir, QualityDir(dir)) : p \in preserved})

ErrorKeys == {"error", "preservation_error", "visualization_error"}

\* C20: when the copy of one artifact of a job fails, the failure is
\* recorded, every other artifact of the job is still copied, and the other
\* jobs are processed.
CopyFailureLeavesOtherCopies ==
    FirstRunFiltered =>
        /\ Len(org_results) = Len(video_files)
        /\ \A k \in 1..Len(org_results) :
              org_results[k].status = "success" =>
                  /\ ArtifactsToCopy(k) \ unwritable \subseteq disk.files
                  /\ ArtifactsToCopy(k) \cap unwritable # {} =>
                        org_results[k].keys \cap ErrorKeys # {}

\* C19: after the second run of filter_videos and DirectoryPreparer on the
\* same inputs and output directories the disk holds exactly the files and
\* directories it held after the first run.
SecondRunLeavesSameFiles ==
    (run_number = 2 /\ org_pc = "finished") => disk = disk_after_first

(***************************************************************************)
(* The report file of filter_videos and batch_process_chunks               *)
(***************************************************************************)
ReportKept ==
    (batch \in PoolRunners /\ summary # <<>>) => summary' = summary

\* C21: filter_videos and batch_process_chunks write the report only when
\* every job has returned and its result has been collected, never while a
\* job is pending or running; a batch that can do nothing more has written
\* it, and a written report is never written again.
ReportOnceAfterEveryJob ==
    /\ [](batch \in PoolRunners =>
            /\ summary # <<>> =>
                   /\ \A j \in JobIds : jobs[j].state = "collected"
                   /\ Len(results) >= NumJobs
                   /\ summary[1].results = results
            /\ ~(ENABLED NextBatch) => summary # <<>>)
    /\ [][ReportKept]_vars

\* A written report of a pool whose jobs completed out of submission order.
WitnessReportAfterLastCollection ==
    /\ batch \in PoolRunners
    /\ summary # <<>>
    /\ Len(results) = NumJobs
    /\ results[1].name = NumJobs

\* C22: every record with status 'success' in a persisted report carries an
\* offset and a confidence.
SuccessRecordsCarryMeasurement ==
    summary # <<>> =>
        \A k \in 1..Len(summary[1].results) :
            summary[1].results[k].status = "success" =>
                {"offset", "confidence"} \subseteq summary[1].results[k].keys

(***************************************************************************)
(* The index stamps of the chunks of cut_video_chunks                      *)
(***************************************************************************)
\* for i, chunk_path in enumerate(chunk_files): syncnet_result["chunk_index"] = i
ChunkIndexInSummary(i) == i - 1

\* C25: the i-th chunk cut_video_chunks returns (counting from 0) is named
\* chunk_<i>, and the chunk_index the processing summary records for it is
\* the index in its name, also after an extraction that failed.
ChunksIndexStampedWithoutGaps ==
    planner = "cut_video_chunks" =>
        \A i \in 1..Len(chunk_files) :
            chunk_files[i].num = ChunkIndexInSummary(i)

(***************************************************************************)
(* The external stages of one job                                          *)
(***************************************************************************)
StageOrder == <<"preprocess", "score", "visualize">>

\* C26: within one job the stages run in the order preprocess, score,
\* visualize; scoring is invoked only after preprocessing exited 0 and left
\* the face-track artifact, visualization only after scoring exited 0.
StagesRunInDependencyOrder ==
    runner # "none" =>
        /\ Len(job_stages) \in 1..3
        /\ \A k \in 1..Len(job_stages) : job_stages[k].stage = StageOrder[k]
        /\ Len(job_stages) >= 2 => job_stages[1].rc = 0 /\ job_env.artifact
        /\ Len(job_stages) >= 3 => job_stages[2].rc = 0

\* C30: no stage of a job is invoked twice, and a stage that exited
\* non-zero is the last one the job invokes.
NoStageIsRetried ==
    runner # "none" =>
        /\ \A k, m \in 1..Len(job_stages) :
               job_stages[k].stage = job_stages[m].stage => k = m
        /\ \A k \in 1..Len(job_stages) :
               job_stages[k].rc # 0 => k = Len(job_stages)

\* A job whose scoring exited non-zero after one preprocessing run.
WitnessScoringFailedOnce ==
    /\ runner # "none"
    /\ Len(job_stages) = 2
    /\ job_stages[1] = Invoked("preprocess", 0)
    /\ job_stages[2] = Invoked("score", 1)

(***************************************************************************)
(* Who appends to results, and in which order                              *)
(***************************************************************************)
\* The collector takes the result of job j in this step.
Collects(j) == jobs[j].state = "done" /\ jobs'[j].state = "collected"

\* A worker thread starts or ends job j in this step.
WorkerActs(j) ==
    /\ jobs'[j].state # jobs[j].state
    /\ jobs'[j].state \in {"running", "done"}

OnlyCollectorAppends ==
    batch \in PoolRunners =>
        /\ Len(results') >= Len(results)
        /\ SubSeq(results', 1, Len(results)) = results
        /\ results' # results => \E j \in JobIds : Collects(j)
        /\ (\E j \in JobIds : WorkerActs(j)) => results' = results

CollectsOldestFirst ==
    batch \in PoolRunners =>
        \A j \in JobIds : Collects(j) => j = Head(finished_futures)

CollectsAsYielded ==
    batch \in PoolRunners =>
        \A j \in JobIds :
            Collects(j) =>
                /\ results'[Len(results) + 1].name = j
                /\ \/ j = Head(finished_futures)
                   \/ j \in FinishedEarly

SpecBatchFair ==
    /\ SpecBatch
    /\ \A j \in JobIds :
          /\ WF_vars(StartJob(j))
          /\ WF_vars(FinishJob(j))
          /\ WF_vars(CollectVideo(j))
          /\ WF_vars(CollectChunk(j))
    /\ WF_vars(StartCollecting)
    /\ WF_vars(WriteFilterResults)
    /\ WF_vars(WriteBatchSummary)
    /\ WF_vars(ProcessNextChunk)
    /\ WF_vars(WriteProcessingSummary)

Returned(j) == jobs[j].state \in {"done", "collected"}

TerminalStateKept ==
    \A j \in JobIds :
        (batch \in PoolRunners /\ Returned(j)) =>
            /\ Returned(j)'
            /\ jobs'[j].ret = jobs[j].ret
            /\ jobs'[j].stages = jobs[j].stages

\* C27: every job submitted to the pool eventually returns with one of its
\* outcomes, its result is eventually collected and the report is
\* eventually written; what a job returned never changes afterwards.
EveryJobEndsAndReportIsWritten ==
    /\ batch \in PoolRunners =>
          /\ \A j \in JobIds : <>(Returned(j) /\ jobs[j].ret # <<>>)
          /\ \A j \in JobIds : <>[](jobs[j].state = "collected")
          /\ <>[](summary # <<>>)
    /\ [][TerminalStateKept]_vars

\* The last job waits for a worker while the first results are collected.
WitnessJobWaitsDuringCollection ==
    /\ batch \in PoolRunners
    /\ jobs[NumJobs].state = "pending"
    /\ results # <<>>

(***************************************************************************)
(* The finally block of process_single_video                               *)
(***************************************************************************)
StepsNamed(stage) == {k \in 1..Len(job_stages) : job_stages[k].stage = stage}

PreservationKeys(video_name, env) ==
    LET steps == PreserveSteps(video_name, env)
    IN  {steps[k].key : k \in {i \in 1..Len(steps) : steps[i].kind = "key"}}
        \cup {"preservation_error"}

\* C29: for each job of process_single_video the outputs are preserved
\* only when the job's status is 'success'; the removal of its temporary
\* directory is attempted whatever the status, as the last step, after the
\* preservation; a removal that fails leaves the job's record as the runner
\* and the preservation made it, and the batch still records every video and
\* writes its report.
CleanupFollowsPreservation ==
    /\ org_pc = "collect" =>
          LET r == job_result[1]
              video_name == VideoName(video_files[org_index])
              returned == ProcessSingleVideo(video_name, job_env,
                                             thresholds).ret[1]
          IN  /\ (StepsNamed("preserve") # {}) = (r.status = "success")
              /\ StepsNamed("rmtree") = {Len(job_stages)}
              /\ \A k \in StepsNamed("preserve") : k < Len(job_stages)
              /\ [r EXCEPT !.keys = {}] = [returned EXCEPT !.keys = {}]
              /\ returned.keys \subseteq r.keys
              /\ r.keys \ returned.keys
                     \subseteq PreservationKeys(video_name, job_env)
    /\ (org_pc \in {"prepare", "finished"} /\ video_files # <<>>) =>
          /\ Len(org_results) = Len(video_files)
          /\ ResultsFile \in disk.files

\* A first run that ended with its report although the temporary directory
\* of a successful job could not be removed.
WitnessRemovalFailed ==
    /\ org_pc = "finished"
    /\ run_number = 1
    /\ job_result # <<>>
    /\ job_result[1].status = "success"
    /\ job_stages[Len(job_stages)] = Invoked("rmtree", 1)
    /\ StepsNamed("preserve") # {}
    /\ ResultsFile \in disk.files

(***************************************************************************)
(* The command-line entry points                                           *)
(*                                                                         *)
(* main of filter_videos_by_sync_score.py, main of batch_process.py, the   *)
(* __main__ block of process_long_video.py, and main of quality_presets.py *)
(* which runs process_long_video.py as a child process.  argv holds the    *)
(* options given and what the program finds: whether the input path        *)
(* exists and how many files (or chunks) it gets from it.  The run step    *)
(* follows one of those files through its job runner.                      *)
(***************************************************************************)
MaxFound == 1        \* files or chunks found under the input path

Programs == {"filter_videos_by_sync_score", "batch_process",
             "process_long_video", "quality_presets"}

NoPreset == ""

\* presets of main in filter_videos_by_sync_score.py
FilterMainPresets ==
    [strict  |-> [min_confidence |-> 8000, max_abs_offset |-> 2],
     high    |-> [min_confidence |-> 6000, max_abs_offset |-> 3],
     medium  |-> [min_confidence |-> 4000, max_abs_offset |-> 5],
     relaxed |-> [min_confidence |-> 2000, max_abs_offset |-> 8]]

\* FILTER_PRESETS of quality_presets.py
FILTER_PRESETS ==
    [strict  |-> [min_confidence |-> 6000, max_abs_offset |-> 2],
     high    |-> [min_confidence |-> 4000, max_abs_offset |-> 5],
     medium  |-> [min_confidence |-> 2500, max_abs_offset |-> 8],
     relaxed |-> [min_confidence |-> 1500, max_abs_offset |-> 12],
     none    |-> [min_confidence |-> 0, max_abs_offset |-> 50]]

PresetNames == DOMAIN FILTER_PRESETS

PresetsOf(program) ==
    IF program = "filter_videos_by_sync_score" THEN FilterMainPresets
    ELSE FILTER_PRESETS

TakesPreset(program) ==
    program \in {"filter_videos_by_sync_score", "quality_presets"}

TakesThresholds(program) ==
    program \in {"filter_videos_by_sync_score", "process_long_video"}

CliFiles ==
    {<<>>, <<WriteLine(0, 2, 7000)>>, <<WriteLine(0, -4, 3000)>>,
     <<WriteLine(0, 9, 1800)>>}

CliEnvs ==
    {e \in EnvsOver(CliFiles) :
        /\ e.viz_rc = 0
        /\ e.pre_rc # 0 => ~e.artifact
        /\ ~e.artifact => e.score_rc = 0
        /\ (~e.artifact \/ e.score_rc # 0) => ~e.offsets_exists}

CommandLines ==
    {a \in [program : Programs,
            preset : PresetNames \cup {NoPreset},
            min_confidence : {2000, 5000},
            max_abs_offset : {3, 10},
            no_filter : BOOLEAN,
            input_exists : BOOLEAN,
            syncnet_dir_exists : BOOLEAN,
            found : 0..MaxFound] :
        /\ ~TakesPreset(a.program) => a.preset = NoPreset
        /\ ~TakesThresholds(a.program) =>
               a.min_confidence = 2000 /\ a.max_abs_offset = 10
        /\ a.program # "process_long_video" => ~a.no_filter
        /\ a.program # "batch_process" => a.syncnet_dir_exists
        /\ ~a.input_exists => a.found = 0}

InitCli ==
    /\ argv \in CommandLines
    /\ cli_pc = "parse"
    /\ exit_status = StillRunning
    /\ IdleParse /\ IdleJob /\ IdleBatch /\ IdlePlan /\ IdleOrganize

cliRest == <<argv, runner, job_stages, parseVars, batchVars, planVars, orgVars>>

\* sys.exit(status), or the status the interpreter exits with
Exit(status) == cli_pc' = "exited" /\ exit_status' = status

\* The thresholds in force after the options are read.  quality_presets.py
\* passes its preset to process_long_video.py as --min_confidence and
\* --max_abs_offset, and for 'none' adds --no_filter.
ThresholdsFromOptions(a) ==
    IF a.program = "quality_presets"
    THEN [min_confidence |-> FILTER_PRESETS[a.preset].min_confidence,
          max_abs_offset |-> FILTER_PRESETS[a.preset].max_abs_offset,
          filter_low_quality |-> a.preset # "none"]
    ELSE IF a.program = "filter_videos_by_sync_score" /\ a.preset # NoPreset
    THEN [min_confidence |-> FilterMainPresets[a.preset].min_confidence,
          max_abs_offset |-> FilterMainPresets[a.preset].max_abs_offset,
          filter_low_quality |-> TRUE]
    ELSE [min_confidence |-> a.min_confidence,
          max_abs_offset |-> a.max_abs_offset,
          filter_low_quality |-> ~a.no_filter]

\* parser.parse_args() and what main does with the preset.  argparse exits
\* with status 2 on a value outside choices; main of quality_presets.py
\* returns 1 without --preset.
ParseArguments ==
    /\ cli_pc = "parse"
    /\ IF argv.preset \notin DOMAIN PresetsOf(argv.program) \cup {NoPreset}
       THEN Exit(2) /\ UNCHANGED thresholds
       ELSE IF argv.program = "quality_presets" /\ argv.preset = NoPreset
       THEN Exit(1) /\ UNCHANGED thresholds
       ELSE /\ cli_pc' = "validate"
            /\ thresholds' = IF argv.program = "batch_process" THEN thresholds
                              ELSE ThresholdsFromOptions(argv)
            /\ UNCHANGED exit_status
    /\ UNCHANGED <<job_env, job_result, cliRest>>

\* The status main of quality_presets.py returns whatever its child did.
StatusSeen(status) ==
    IF argv.program = "quality_presets" THEN 0 ELSE status

\* if not os.path.exists(...): sys.exit(1)
ValidateInput ==
    /\ cli_pc = "validate"
    /\ IF ~argv.input_exists \/ ~argv.syncnet_dir_exists
       THEN Exit(StatusSeen(1))
       ELSE cli_pc' = "run" /\ UNCHANGED exit_status
    /\ UNCHANGED <<thresholds, job_env, job_result, cliRest>>

\* filter_videos, batch_process_chunks or process_long_video: with nothing
\* found the function prints a message and returns, and so does main.
RunTool ==
    /\ cli_pc = "run"
    /\ IF argv.found = 0
       THEN UNCHANGED <<job_env, job_result>>
       ELSE \E env \in CliEnvs :
               /\ job_env' = env
               /\ job_result' =
                    IF argv.program = "filter_videos_by_sync_score"
                    THEN ProcessSingleVideo(1, env, thresholds).ret
                    ELSE IF argv.program = "batch_process"
                    THEN ProcessSingleChunk(1, env).ret
                    ELSE LET out == RunSyncnetPipeline(1, env)
                         IN  IF out.ret = <<>> THEN <<>>
                             ELSE <<EvaluateChunk(out.ret[1], thresholds)>>
    /\ Exit(0)
    /\ UNCHANGED <<thresholds, cliRest>>

NextCli == ParseArguments \/ ValidateInput \/ RunTool

SpecCli == InitCli /\ [][NextCli]_vars

\* C23: the entry points exit with a non-zero status when the input path
\* does not exist and when it exists but no file or chunk is found in it.
MissingOrEmptyInputExitsNonZero ==
    (/\ cli_pc = "exited"
     /\ argv.program \in {"filter_videos_by_sync_score", "batch_process",
                          "process_long_video"}
     /\ ~argv.input_exists \/ argv.found = 0) =>
        exit_status # 0

\* --min_confidence and --max_abs_offset with the values of the preset, and
\* no other option.
ExplicitThresholds(program, preset) ==
    [min_confidence |-> PresetsOf(program)[preset].min_confidence,
     max_abs_offset |-> PresetsOf(program)[preset].max_abs_offset,
     filter_low_quality |-> TRUE]

WithExplicitThresholds(program, preset, env) ==
    IF program = "filter_videos_by_sync_score"
    THEN ProcessSingleVideo(1, env, ExplicitThresholds(program, preset)).ret
    ELSE LET out == RunSyncnetPipeline(1, env)
         IN  IF out.ret = <<>> THEN <<>>
             ELSE <<EvaluateChunk(out.ret[1],
                                  ExplicitThresholds(program, preset))>>

\* C24: a file processed under a preset gets the record, and so the
\* verdict, it gets when the preset's min_confidence and max_abs_offset are
\* given explicitly.
PresetEqualsExplicitThresholds ==
    (/\ cli_pc = "exited"
     /\ argv.preset \in DOMAIN PresetsOf(argv.program)
     /\ job_env # <<>>) =>
        job_result = WithExplicitThresholds(argv.program, argv.preset, job_env)

(***************************************************************************)
(* The three chunk planners on Python's numbers                            *)
(*                                                                         *)
(* ffprobe's duration is a float; --chunk_duration and --overlap are ints  *)
(* for process_long_video.py and process_video_chunks.py and floats for    *)
(* the chunk-time command.  Times are counted in units of 2^-FracBits s;   *)
(* a float keeps MantissaBits significant bits (53 in CPython) and every   *)
(* float operation rounds its exact result to the nearest float, ties to   *)
(* even.  An int is exact.  One run plans the same video with the          *)
(* chunk-time command and, when the options are whole numbers, with        *)
(* cut_video_chunks after it; another run plans it with create_chunks.     *)
(***************************************************************************)
FracBits == 2
MantissaBits == 5

FloatMaxDuration == 14        \* longest video, seconds
FloatMaxChunkDuration == 6    \* longest chunk_duration, seconds

RECURSIVE Pow2(_)
Pow2(n) == IF n = 0 THEN 1 ELSE 2 * Pow2(n - 1)

RECURSIVE BitLength(_)
BitLength(n) == IF n = 0 THEN 0 ELSE 1 + BitLength(n \div 2)

RoundNat(n) ==
    IF BitLength(n) <= MantissaBits
    THEN n
    ELSE LET q == Pow2(BitLength(n) - MantissaBits)
             r == n % q
             b == n - r
         IN  IF 2 * r > q \/ (2 * r = q /\ (b \div q) % 2 = 1)
             THEN b + q
             ELSE b

\* float(x): the float nearest to x
Float(x) == IF x < 0 THEN 0 - RoundNat(0 - x) ELSE RoundNat(x)

IsFloat(x) == Float(x) = x

\* a + b and a - b on floats
FloatAdd(a, b) == Float(a + b)
FloatSub(a, b) == Float(a - b)

UnitsPerSecond == Pow2(FracBits)

Seconds(n) == n * UnitsPerSecond

IsWhole(x) == x % UnitsPerSecond = 0

Floats(hi) == {x \in 0..Seconds(hi) : IsFloat(x)}

\* if actual_duration < 5: break
FloatTooShort(duration) == duration < Seconds(MinChunkDuration)

FloatPlanners == {"chunk_time", "create_chunks"}

FloatPlanInputs ==
    {in \in Floats(FloatMaxDuration) \X Floats(FloatMaxChunkDuration)
             \X Floats(FloatMaxChunkDuration) :
        in[1] > 0 /\ in[2] > 0 /\ in[3] < in[2]}

InitFloatPlan ==
    /\ planner \in FloatPlanners
    /\ \E in \in FloatPlanInputs :
        /\ total_duration = in[1]
        /\ chunk_duration = in[2]
        /\ overlap = in[3]
        \* create_chunks takes an int chunk_duration and no overlap
        /\ planner = "create_chunks" => IsWhole(in[2]) /\ in[3] = 0
    /\ start_time = 0
    /\ chunk_num = 0
    /\ chunk_files = <<>>
    /\ commands = <<>>
    /\ plan_pc = "loop"
    /\ first_plan = <<>>
    /\ iterations = 0
    /\ IdleParse /\ IdleJob /\ IdleBatch /\ IdleOrganize /\ IdleCli

\* ceil(total_duration / step)
IterationBound(step) == (total_duration + step - 1) \div step

\* A loop is followed one pass beyond the longest bound of an input.
MaxPasses == Seconds(FloatMaxDuration) + 1

floatRest == <<total_duration, chunk_duration, overlap, first_plan,
               parseVars, jobVars, batchVars, orgVars, cliVars>>

\* The pass that leaves the loop at `break`.
BreakLoop ==
    /\ plan_pc' = "done"
    /\ iterations' = iterations + 1
    /\ UNCHANGED <<start_time, chunk_num, chunk_files, commands>>

\* The rest of a pass: the extraction, whether it exited 0, and the next
\* start_time.
FloatExtract(duration, end, next_start, may_fail) ==
    \E ok \in BOOLEAN :
        /\ ok \/ (may_fail /\ ExtractFailures < MaxExtractFailures)
        /\ commands' = Append(commands,
                              Extraction(chunk_num, start_time, duration, ok))
        /\ chunk_files' = IF ok
                          THEN Append(chunk_files,
                                      Chunk(chunk_num, start_time, end))
                          ELSE chunk_files
        /\ chunk_num' = chunk_num + 1
        /\ start_time' = next_start
        /\ iterations' = iterations + 1
        /\ UNCHANGED plan_pc

\* remaining = total_duration - start_time
Remaining == FloatSub(total_duration, start_time)

\* start_time += chunk_duration - overlap, on floats
FloatNextStartOverlapTwice ==
    FloatAdd(start_time, FloatSub(chunk_duration, 2 * overlap))
FloatNextStart == FloatAdd(start_time, FloatSub(chunk_duration, overlap))

\* One pass of the while loop of the chunk-time command: start_time,
\* chunk_duration and overlap are floats.
FloatChunkTimePass ==
    /\ planner = "chunk_time"
    /\ plan_pc = "loop"
    /\ iterations < MaxPasses
    /\ start_time < total_duration
    /\ LET actual_duration == Min(chunk_duration, Remaining)
       IN  IF FloatTooShort(actual_duration)
           THEN BreakLoop
           ELSE FloatExtract(actual_duration,
                             FloatAdd(start_time, actual_duration),
                             FloatNextStart, FALSE)
    /\ UNCHANGED <<planner, floatRest>>

\* end_time - start_time, where start_time is an int and end_time the int
\* start_time + chunk_duration or the float total_duration.
EndMinusStartUncut == chunk_duration
IntEndMinusStart ==
    IF start_time + chunk_duration <= total_duration
    THEN chunk_duration
    ELSE FloatSub(total_duration, Float(start_time))

\* One pass of the while loop of cut_video_chunks: start_time,
\* chunk_duration and overlap are ints.
IntCutPass ==
    /\ planner = "cut_video_chunks"
    /\ plan_pc = "loop"
    /\ iterations < MaxPasses
    /\ start_time < total_duration
    /\ IF FloatTooShort(IntEndMinusStart)
       THEN BreakLoop
       ELSE FloatExtract(IntEndMinusStart,
                         Min(start_time + chunk_duration, total_duration),
                         start_time + chunk_duration - overlap,
                         FALSE)
    /\ UNCHANGED <<planner, floatRest>>

\* start_time = end_time
CreateNextStartPastEnd(end_time) == end_time + 1
CreateNextStart(end_time) == end_time

\* One pass of the while loop of create_chunks: chunk_duration is an int,
\* start_time an int or, after the last pass, total_duration.
CreateChunksPass ==
    /\ planner = "create_chunks"
    /\ plan_pc = "loop"
    /\ iterations < MaxPasses
    /\ start_time < total_duration
    /\ LET end_time == Min(start_time + chunk_duration, total_duration)
       IN  FloatExtract(IntEndMinusStart, end_time,
                        CreateNextStart(end_time), TRUE)
    /\ UNCHANGED <<planner, floatRest>>

\* while start_time < total_duration: the loop of a planner ends.
FloatLoopEnds ==
    /\ plan_pc = "loop"
    /\ ~(start_time < total_duration)
    /\ plan_pc' = "done"
    /\ UNCHANGED <<start_time, chunk_num, chunk_files, commands, iterations,
                   planner, floatRest>>

\* process_long_video.py is run on the video the chunk-time command has
\* planned, with the same whole-number options.
RunCutVideoChunks ==
    /\ planner = "chunk_time"
    /\ plan_pc = "done"
    /\ IsWhole(chunk_duration) /\ IsWhole(overlap)
    /\ planner' = "cut_video_chunks"
    /\ first_plan' = commands
    /\ start_time' = 0
    /\ chunk_num' = 0
    /\ chunk_files' = <<>>
    /\ commands' = <<>>
    /\ iterations' = 0
    /\ plan_pc' = "loop"
    /\ UNCHANGED <<total_duration, chunk_duration, overlap,
                   parseVars, jobVars, batchVars, orgVars, cliVars>>

NextFloatPlan ==
    \/ FloatChunkTimePass
    \/ IntCutPass
    \/ CreateChunksPass
    \/ FloatLoopEnds
    \/ RunCutVideoChunks

SpecFloatPlan == InitFloatPlan /\ [][NextFloatPlan]_vars

\* C31: create_chunks never materialises a chunk shorter than the 5 s
\* minimum: every chunk it extracts has start < end and end - start >= 5.
CreateChunksKeepsMinimumLength ==
    planner = "create_chunks" =>
        \A k \in 1..Len(chunk_files) :
            /\ chunk_files[k].start < chunk_files[k].end
            /\ chunk_files[k].end - chunk_files[k].start
                   >= Seconds(MinChunkDuration)

\* The bound C34 gives a planner's loop.
PassesAllowed ==
    IF planner = "create_chunks"
    THEN IterationBound(chunk_duration)
    ELSE IterationBound(chunk_duration - overlap)

\* C34 as stated: for every total_duration > 0, chunk_duration > 0 and
\* 0 <= overlap < chunk_duration the loops of cut_video_chunks and of the
\* chunk-time command make at most ceil(D / (L - o)) passes and the loop of
\* create_chunks at most ceil(D / L).
LoopsEndWithinBound ==
    iterations <= PassesAllowed

\* C34: the same, for a chunk_duration and an overlap that are whole
\* numbers of seconds.
LoopsEndWithinBoundOnWholeSeconds ==
    (IsWhole(chunk_duration) /\ IsWhole(overlap)) =>
        /\ iterations <= PassesAllowed
        /\ plan_pc = "loop" /\ iterations = PassesAllowed
              => ~(start_time < total_duration)

\* Each planner has made every pass its bound allows and its loop has ended.
WitnessLoopUsesWholeBound ==
    /\ IsWhole(chunk_duration) /\ IsWhole(overlap)
    /\ plan_pc = "done"
    /\ iterations = PassesAllowed
    /\ iterations >= 3

Triple(c) == <<c.num, c.start, c.duration>>

CreateChunksPartitionsVideo ==
    planner = "create_chunks" =>
        /\ commands # <<>> => commands[1].start = 0
        /\ \A k \in 1..Len(commands) :
              /\ 0 < commands[k].duration
              /\ commands[k].duration <= chunk_duration
              /\ commands[k].num = k - 1
        /\ \A k \in 1..(Len(commands) - 1) :
              commands[k + 1].start = CutEnd(k)
        /\ plan_pc = "done" =>
              /\ commands # <<>>
              /\ CutEnd(Len(commands)) = total_duration

\* A video cut into full chunks and a shorter last one.
WitnessPartitionWithShortTail ==
    /\ planner = "create_chunks"
    /\ plan_pc = "done"
    /\ Len(commands) >= 3
    /\ commands[Len(commands)].duration < chunk_duration
    /\ ~IsWhole(total_duration)

(***************************************************************************)
(* DirectoryPreparer.prepare_directories as a pool of jobs                 *)
(*                                                                         *)
(* One job per chunk directory found; a job calls the four                 *)
(* _process_chunk_* methods in turn.  Each of them returns True when its   *)
(* input file exists and the copy or the ffmpeg run succeeds, and False    *)
(* otherwise: every exception of a copy or of ffmpeg is caught inside.     *)
(***************************************************************************)
MaxChunksFound == 2   \* chunk directories under syncnet_outputs

PrepKinds == <<"normal_video", "bbox_video", "cropped_video", "audio">>

\* What one operation meets: its input file is missing, or the copy or the
\* conversion fails, or it succeeds.
PrepOutcomes == {"ok", "failed", "missing"}

\* The normal video is the input of the copy and of the audio extraction.
PrepEnvs ==
    {e \in [1..Len(PrepKinds) -> PrepOutcomes] :
        (e[1] = "missing") = (e[4] = "missing")}

InitPrepare ==
    /\ batch = "prepare_directories"
    /\ max_workers \in 1..MaxWorkers
    /\ \E n \in 0..MaxChunksFound :
          jobs = [j \in 1..n |-> [state |-> "pending", ret |-> <<>>,
                                  stages |-> <<>>, raised |-> FALSE]]
    /\ keep_all = FALSE
    /\ results = <<>>
    /\ completed = 0
    /\ accepted_chunks = <<>>
    /\ rejected_chunks = <<>>
    /\ summary = <<>>
    /\ copies = {}
    /\ loop_index = 0
    /\ finished_futures = <<>>
    /\ finished_before_loop = NotCollecting
    /\ IdleJob /\ IdleParse /\ IdlePlan /\ IdleOrganize /\ IdleCli

ChunksFound == DOMAIN jobs

prepRest == <<batch, max_workers, keep_all, accepted_chunks, rejected_chunks,
              copies, loop_index, jobRest>>

\* _process_chunk_normal_video and the three like it: True exactly when the
\* input exists and the copy or conversion succeeds.
PrepFlagUnlessMissing(outcome) == outcome # "missing"
PrepFlag(outcome) == outcome = "ok"

\* _process_single_chunk: the four calls in order and the record of flags.
ProcessPrepChunk(chunk_name, env) ==
    [ret |-> [chunk |-> chunk_name,
              normal_video |-> PrepFlag(env[1]),
              bbox_video |-> PrepFlag(env[2]),
              cropped_video |-> PrepFlag(env[3]),
              audio |-> PrepFlag(env[4])],
     stages |-> [k \in 1..Len(PrepKinds) |->
                    [stage |-> PrepKinds[k], outcome |-> env[k]]]]

\* A worker thread takes the next submitted chunk.
PrepStartJob(j) ==
    /\ batch = "prepare_directories"
    /\ jobs[j].state = "pending"
    /\ \A i \in 1..(j - 1) : jobs[i].state # "pending"
    /\ Cardinality({i \in ChunksFound : jobs[i].state = "running"})
           < max_workers
    /\ jobs' = [jobs EXCEPT ![j].state = "running"]
    /\ UNCHANGED <<results, completed, summary, finished_futures,
                   finished_before_loop, prepRest>>

\* The worker runs _process_single_chunk to its return.
PrepFinishJob(j) ==
    /\ batch = "prepare_directories"
    /\ jobs[j].state = "running"
    /\ \E env \in PrepEnvs :
        LET out == ProcessPrepChunk(j, env)
        IN  jobs' = [jobs EXCEPT ![j].state = "done", ![j].ret = <<out.ret>>,
                                 ![j].stages = out.stages]
    /\ finished_futures' = Append(finished_futures, j)
    /\ UNCHANGED <<results, completed, summary, finished_before_loop,
                   prepRest>>

\* The collector enters `for future in as_completed(...)`.
PrepStartCollecting ==
    /\ batch = "prepare_directories"
    /\ ChunksFound # {}
    /\ finished_before_loop = NotCollecting
    /\ finished_before_loop' = Len(finished_futures)
    /\ UNCHANGED <<jobs, results, completed, summary, finished_futures,
                   prepRest>>

\* completed += 1
CountedTwice(n) == n + 2
Counted(n) == n + 1

\* One pass of the collection loop of prepare_directories.
CollectPrepared(j) ==
    /\ batch = "prepare_directories"
    /\ YieldsNext(j)
    /\ results' = Append(results, jobs[j].ret[1])
    /\ completed' = Counted(completed)
    /\ jobs' = [jobs EXCEPT ![j].state = "collected"]
    /\ Yielded(j)
    /\ UNCHANGED <<summary, prepRest>>

PrepCount(rs, kind) == Cardinality({k \in 1..Len(rs) : rs[k][kind]})
PrepCountAll(rs, kind) == Len(rs)

\* _generate_summary
GenerateSummary(rs) ==
    [total_chunks |-> Len(rs),
     successful_operations |->
        [kind \in {PrepKinds[k] : k \in 1..Len(PrepKinds)} |->
            PrepCount(rs, kind)],
     results |-> rs]

\* The end of prepare_directories: the early return when no chunk was found,
\* or the summary after the pool has shut down.
WritePrepSummary ==
    /\ batch = "prepare_directories"
    /\ summary = <<>>
    /\ \A j \in ChunksFound : jobs[j].state = "collected"
    /\ summary' = IF ChunksFound = {}
                  THEN [total_chunks |-> 0, results |-> <<>>]
                  ELSE GenerateSummary(results)
    /\ UNCHANGED <<jobs, results, completed, finished_futures,
                   finished_before_loop, prepRest>>

NextPrepare ==
    \/ \E j \in ChunksFound : PrepStartJob(j)
    \/ \E j \in ChunksFound : PrepFinishJob(j)
    \/ PrepStartCollecting
    \/ \E j \in ChunksFound : CollectPrepared(j)
    \/ WritePrepSummary

SpecPrepare == InitPrepare /\ [][NextPrepare]_vars

\* The outcomes the operations of chunk j met, by kind.
OutcomesOf(j, kind) ==
    {k \in 1..Len(jobs[j].stages) : jobs[j].stages[k].stage = kind}

\* C32: for each chunk each of the four operations is attempted exactly
\* once whatever the outcome of the others; a chunk's flag for an operation
\* is true exactly when that operation succeeded; the summary counts, per
\* kind, the chunk results whose flag is true, and total_chunks is the
\* number of chunks found.
PreparerRecordsEveryOperation ==
    batch = "prepare_directories" =>
        /\ \A j \in ChunksFound :
              jobs[j].state \in {"done", "collected"} =>
                 \A k \in 1..Len(PrepKinds) :
                    /\ Cardinality(OutcomesOf(j, PrepKinds[k])) = 1
                    /\ jobs[j].ret[1][PrepKinds[k]]
                          = (jobs[j].stages[k].outcome = "ok")
        /\ summary # <<>> =>
              /\ summary.total_chunks = Cardinality(ChunksFound)
              /\ ChunksFound # {} =>
                    \A k \in 1..Len(PrepKinds) :
                       summary.successful_operations[PrepKinds[k]]
                          = Cardinality({j \in ChunksFound :
                                            jobs[j].stages[k].outcome = "ok"})

\* Two chunks: one whose copy failed while its other operations succeeded,
\* one without a bounding-box video.
WitnessOperationsFailApart ==
    /\ batch = "prepare_directories"
    /\ summary # <<>>
    /\ \E i, j \in ChunksFound :
          /\ i # j
          /\ jobs[i].stages[1].outcome = "failed"
          /\ jobs[i].ret[1].audio
          /\ jobs[j].stages[2].outcome = "missing"
          /\ jobs[j].ret[1].cropped_video
    /\ summary.successful_operations["bbox_video"] = 1

CollectedJobs == {j \in DOMAIN jobs : jobs[j].state = "collected"}

\* C37: the progress counter `completed` of each collection loop is
\* incremented exactly once per job: it is at most the number of submitted
\* jobs, equals the number of jobs collected so far and, when the loop has
\* ended, the number of submitted jobs.
CompletedCountsEachJobOnce ==
    batch \in PoolRunners \cup {"prepare_directories"} =>
        /\ completed <= Cardinality(DOMAIN jobs)
        /\ completed = Cardinality(CollectedJobs)

Range(s) == {s[k] : k \in 1..Len(s)}

\* C33: in process_long_video the accepted and the rejected list are
\* disjoint and together hold every record of results; a chunk with status
\* 'no_faces' is always rejected; filtered_chunks receives the videos of
\* accepted chunks only, never of a rejected one.
AcceptedAndRejectedPartitionResults ==
    batch = "process_long_video" =>
        /\ Range(accepted_chunks) \cap Range(rejected_chunks) = {}
        /\ Range(NamesOf(accepted_chunks)) \cap Range(NamesOf(rejected_chunks))
              = {}
        /\ Range(accepted_chunks) \cup Range(rejected_chunks) = Range(results)
        /\ Len(accepted_chunks) + Len(rejected_chunks) = Len(results)
        /\ \A k \in 1..Len(results) :
              results[k].status = "no_faces"
                 => results[k] \in Range(rejected_chunks)
        /\ \A c \in copies :
              /\ c.dir = "filtered_chunks"
              /\ c.name \in Range(NamesOf(accepted_chunks))
              /\ c.name \notin Range(NamesOf(rejected_chunks))

\* A finished run with an accepted chunk, copied to filtered_chunks, a
\* chunk rejected for its quality and a chunk without faces.
WitnessAcceptedPoorAndNoFaces ==
    /\ batch = "process_long_video"
    /\ summary # <<>>
    /\ Len(accepted_chunks) = 1
    /\ copies = {[dir |-> "filtered_chunks", name |-> accepted_chunks[1].name]}
    /\ \E k \in 1..Len(rejected_chunks) :
          rejected_chunks[k].status = "no_faces"
    /\ \E k \in 1..Len(rejected_chunks) :
          rejected_chunks[k].status = "success"

(***************************************************************************)
(* filter_videos run again and again into one output directory, the        *)
(* thresholds of the SyncNetFilter chosen anew for every run               *)
(***************************************************************************)
MaxRuns == 2          \* runs of filter_videos after the first

\* --min_confidence and --max_offset of the runs: the defaults of the
\* model, a stricter confidence and a wider offset with a lower confidence.
RefilterThresholds ==
    {[min_confidence |-> c, max_abs_offset |-> o, filter_low_quality |-> TRUE] :
        c \in {3000, 5000, 8000}, o \in {3, 5}}

InitRefilter ==
    /\ input_dir \in {S \in SUBSET PossibleFiles :
                        Cardinality(S) \in 1..MaxFiles}
    /\ tool_env \in [Glob(input_dir) -> OrgEnvs]
    /\ unwritable = {}
    /\ video_files = <<>>
    /\ org_results = <<>>
    /\ org_index = 0
    /\ org_pc = "find"
    /\ run_number = 1
    /\ disk = EmptyDisk
    /\ disk_after_first = EmptyDisk
    /\ temp_dir = <<>>
    /\ keep_all \in BOOLEAN
    /\ thresholds \in RefilterThresholds
    /\ batch = "none" /\ max_workers = 0 /\ jobs = <<>> /\ results = <<>>
    /\ completed = 0 /\ accepted_chunks = <<>> /\ rejected_chunks = <<>>
    /\ summary = <<>> /\ copies = {} /\ loop_index = 0
    /\ finished_futures = <<>> /\ finished_before_loop = NotCollecting
    /\ runner = "none" /\ job_env = <<>> /\ job_result = <<>>
    /\ job_stages = <<>>
    /\ IdleParse /\ IdlePlan /\ IdleCli

\* main() of filter_videos_by_sync_score.py started once more on the same
\* input and output directories.
FilterAgain ==
    /\ org_pc = "prepare"
    /\ run_number <= MaxRuns
    /\ run_number' = run_number + 1
    /\ thresholds' \in RefilterThresholds
    /\ org_pc' = "find"
    /\ UNCHANGED <<input_dir, tool_env, unwritable, video_files, org_results,
                   org_index, disk, disk_after_first, temp_dir, runner, job_env,
                   job_result, job_stages, parseVars, batchVars, planVars,
                   cliVars>>

NextRefilter ==
    \/ FindVideoFiles
    \/ ProcessVideo
    \/ CollectVideoResult
    \/ WriteSyncFilterResults
    \/ FilterAgain

SpecRefilter == InitRefilter /\ [][NextRefilter]_vars

\* C38: after any sequence of filter_videos runs into the same output
\* directory, no video file is in both good_quality and poor_quality, and
\* the location of each video matches the verdict of the most recent run.
QualityDirsFollowLastVerdict ==
    (org_pc = "prepare" /\ ~keep_all) =>
        /\ \A v \in Glob(input_dir) :
              ~(/\ VideoDst("good_quality", v) \in disk.files
                /\ VideoDst("poor_quality", v) \in disk.files)
        /\ \A k \in 1..Len(org_results) :
              org_results[k].status = "success" =>
                  \A dir \in {"good_quality", "poor_quality"} :
                      VideoDst(dir, video_files[k]) \in disk.files
                          <=> dir = DstDir(org_results[k])

(***************************************************************************)
(* filter_videos with the working directories of its jobs                  *)
(*                                                                         *)
(* process_single_video works in temp_dir/<video_name>, video_name being   *)
(* the stem of the file.  temp_dir[name] is what lies there: tracks, the   *)
(* video whose face tracks and crops run_pipeline.py left (<<>> for none), *)
(* and the offsets.txt run_syncnet.py wrote from the crops it found.  A    *)
(* job is cut at its subprocess calls.  The copies made by                 *)
(* _preserve_syncnet_outputs go to the output directory and are left out.  *)
(***************************************************************************)
EmptyTemp == [tracks |-> <<>>, offsets_exists |-> FALSE, offsets |-> <<>>]

InitSharedTemp ==
    /\ batch = "filter_videos"
    /\ max_workers \in 1..MaxWorkers
    /\ keep_all \in BOOLEAN
    /\ thresholds = [min_confidence |-> 5000, max_abs_offset |-> 3,
                     filter_low_quality |-> TRUE]
    /\ input_dir \in {S \in SUBSET PossibleFiles :
                        Cardinality(S) \in 1..MaxFiles /\ Glob(S) # {}}
    /\ tool_env \in [Glob(input_dir) -> OrgEnvs]
    /\ video_files = Sorted(Glob(input_dir))
    /\ temp_dir = [name \in {VideoName(v) : v \in Glob(input_dir)} |->
                      EmptyTemp]
    /\ jobs = [j \in 1..Cardinality(Glob(input_dir)) |->
                  [state |-> "pending", ret |-> <<>>, stages |-> <<>>,
                   raised |-> FALSE]]
    /\ results = <<>>
    /\ completed = 0
    /\ accepted_chunks = <<>>
    /\ rejected_chunks = <<>>
    /\ summary = <<>>
    /\ copies = {}
    /\ loop_index = 0
    /\ finished_futures = <<>>
    /\ finished_before_loop = NotCollecting
    /\ unwritable = {}
    /\ org_results = <<>>
    /\ org_index = 0
    /\ org_pc = "none"
    /\ run_number = 0
    /\ disk = EmptyDisk
    /\ disk_after_first = EmptyDisk
    /\ runner = "none" /\ job_env = <<>> /\ job_result = <<>>
    /\ job_stages = <<>>
    /\ IdleParse /\ IdlePlan /\ IdleCli

Submitted == DOMAIN jobs

\* The jobs a thread of the pool is working on.
InWorker ==
    {j \in Submitted : jobs[j].state \in {"running", "preprocessed", "scored"}}

sharedRest == <<batch, max_workers, keep_all, results, completed,
                accepted_chunks, rejected_chunks, summary, copies, loop_index,
                finished_before_loop, thresholds, runner, job_env, job_result,
                job_stages, input_dir, tool_env, unwritable, video_files,
                org_results, org_index, org_pc, run_number, disk,
                disk_after_first, parseVars, planVars, cliVars>>

\* A worker thread takes the next submitted video.
StartVideoJob(j) ==
    /\ jobs[j].state = "pending"
    /\ \A i \in 1..(j - 1) : jobs[i].state # "pending"
    /\ Cardinality(InWorker) < max_workers
    /\ jobs' = [jobs EXCEPT ![j].state = "running"]
    /\ UNCHANGED <<temp_dir, finished_futures, sharedRest>>

\* os.makedirs(temp_video_dir) and run_pipeline.py, which leaves the face
\* tracks of its video when it finds a face.
Preprocess(j) ==
    /\ jobs[j].state = "running"
    /\ LET video_path == video_files[j]
           env == tool_env[video_path]
       IN  temp_dir' =
              IF ~StageFailed(env.pre_rc) /\ env.artifact
              THEN [temp_dir EXCEPT ![VideoName(video_path)].tracks =
                                         <<video_path>>]
              ELSE temp_dir
    /\ jobs' = [jobs EXCEPT ![j].state = "preprocessed"]
    /\ UNCHANGED <<finished_futures, sharedRest>>

\* The return of process_single_video on what the job met, with the
\* rmtree(temp_video_dir) of its finally block.
ReturnsHaving(j, met) ==
    /\ \E out \in {ProcessSingleVideo(j, met, thresholds)} :
          jobs' = [jobs EXCEPT ![j].state = "done", ![j].ret = out.ret,
                               ![j].stages = out.stages]
    /\ temp_dir' = [temp_dir EXCEPT ![VideoName(video_files[j])] = EmptyTemp]
    /\ finished_futures' = Append(finished_futures, j)

\* From the exit of run_pipeline.py to the exit of run_syncnet.py: the
\* early returns, or the scoring of the crops that lie in the directory.
Score(j) ==
    /\ jobs[j].state = "preprocessed"
    /\ LET video_path == video_files[j]
           env == tool_env[video_path]
           here == temp_dir[VideoName(video_path)]
       IN  IF StageFailed(env.pre_rc) \/ here.tracks = <<>>
           THEN ReturnsHaving(j, [env EXCEPT !.artifact = FALSE,
                                             !.offsets_exists = FALSE,
                                             !.offsets = <<>>])
           ELSE /\ temp_dir' =
                     [temp_dir EXCEPT ![VideoName(video_path)] =
                         [here EXCEPT
                            !.offsets_exists =
                                tool_env[here.tracks[1]].offsets_exists,
                            !.offsets = tool_env[here.tracks[1]].offsets]]
                /\ jobs' = [jobs EXCEPT ![j].state = "scored"]
                /\ UNCHANGED finished_futures
    /\ UNCHANGED sharedRest

\* From the exit of run_syncnet.py to the return: offsets.txt as it lies in
\* the directory is parsed and judged.
ParseAndReturn(j) ==
    /\ jobs[j].state = "scored"
    /\ LET video_path == video_files[j]
           here == temp_dir[VideoName(video_path)]
       IN  ReturnsHaving(j, [tool_env[video_path] EXCEPT
                                !.artifact = TRUE,
                                !.offsets_exists = here.offsets_exists,
                                !.offsets = here.offsets])
    /\ UNCHANGED sharedRest

\* The summary filter_videos writes to sync_filter_results.json.
FilterSummary(rs) ==
    [total_videos |-> Len(video_files),
     successful_processing |-> CountStatus(rs, {"success"}),
     good_quality |-> CountQuality(rs, TRUE),
     poor_quality |-> CountQuality(rs, FALSE),
     no_faces_detected |-> CountStatus(rs, {"no_faces"}),
     processing_failed |-> CountStatus(rs, {"failed"}),
     results |-> rs]

WriteSharedResults ==
    /\ \A j \in Submitted : jobs[j].state = "collected"
    /\ summary = <<>>
    /\ summary' = <<FilterSummary(results)>>
    /\ UNCHANGED <<batch, max_workers, keep_all, jobs, results, completed,
                   accepted_chunks, rejected_chunks, copies, loop_index,
                   batchRest>>

NextSharedTemp ==
    \/ \E j \in Submitted : StartVideoJob(j)
    \/ \E j \in Submitted : Preprocess(j)
    \/ \E j \in Submitted : Score(j)
    \/ \E j \in Submitted : ParseAndReturn(j)
    \/ StartCollecting
    \/ \E j \in Submitted : CollectVideo(j)
    \/ WriteSharedResults

SpecSharedTemp == InitSharedTemp /\ [][NextSharedTemp]_vars

\* What process_single_video returns for the video of job j when nothing
\* else touches its working directory.
AloneResult(j) ==
    ProcessSingleVideo(j, tool_env[video_files[j]], thresholds).ret[1]

Verdict(r) ==
    [name |-> r.name, status |-> r.status, offset |-> r.offset,
     confidence |-> r.confidence, passes_quality |-> r.passes_quality]

\* C39: with tools whose result depends only on their input file, the
\* per-job records (status, offset, confidence, verdict) and the summary
\* counts of filter_videos are the same for every max_workers and every
\* completion order; only the order of the records may differ.
RecordsIndependentOfSchedule ==
    (batch = "filter_videos" /\ video_files # <<>> /\ summary # <<>>) =>
        LET alone == [j \in Submitted |-> AloneResult(j)]
            written == summary[1]
        IN  /\ Len(written.results) = Len(video_files)
            /\ \A j \in Submitted :
                  \E k \in 1..Len(written.results) :
                      Verdict(written.results[k]) = Verdict(alone[j])
            /\ [written EXCEPT !.results = <<>>]
                  = [FilterSummary(alone) EXCEPT !.results = <<>>]

(***************************************************************************)
(* run_syncnet.py writes offsets.txt and a job runner parses it            *)
(***************************************************************************)
MaxTracks == 3        \* cropped face tracks run_syncnet.py scores

\* What SyncNetInstance.evaluate may return for a track: the offset in
\* frames and the confidence in thousandths.
EvaluatedOffsets == {-12, -1, 0, 4}
EvaluatedConfs == {0, 3500, 7050, 12183}

InitRoundTrip ==
    /\ offsets_text = <<>>
    /\ parsed = NotParsed
    /\ IdleJob /\ IdleBatch /\ IdlePlan /\ IdleOrganize /\ IdleCli

\* The loop over enumerate(zip(offsets, confs)) that writes the file
WriteOffsets(offsets, confs) ==
    [idx \in 1..Len(offsets) |-> WriteLine(idx - 1, offsets[idx], confs[idx])]

\* run_syncnet.py scores the crops it finds and writes offsets.txt.
RunSyncnet ==
    /\ offsets_text = <<>>
    /\ parsed.by = "none"
    /\ \E n \in 1..MaxTracks :
          \E offsets \in [1..n -> EvaluatedOffsets] :
             \E confs \in [1..n -> EvaluatedConfs] :
                offsets_text' = WriteOffsets(offsets, confs)
    /\ UNCHANGED <<parsed, jobVars, batchVars, planVars, orgVars, cliVars>>

NextRoundTrip == RunSyncnet \/ ParseInSingleVideo \/ ParseInSingleChunk

SpecRoundTrip == InitRoundTrip /\ [][NextRoundTrip]_vars

\* C40: whatever list of (offset, confidence) tracks run_syncnet.py writes,
\* the parser of filter_videos and the parser of batch_process and
\* process_long_video both make of the lines the same list of candidates,
\* in the order written and with the written offset and confidence.
ParsersReadBackWhatWasWritten ==
    parsed.by # "none" =>
        /\ Len(parsed.tracks) = Len(offsets_text)
        /\ \A i \in 1..Len(offsets_text) :
              \E o \in EvaluatedOffsets, c \in EvaluatedConfs :
                  /\ offsets_text[i] = WriteLine(i - 1, o, c)
                  /\ parsed.tracks[i] = Track(o, c)

\* Either parser has read three written tracks, among them a negative
\* offset of two digits and a confidence with a zero after the point.
WitnessThreeTracksReadBack ==
    /\ parsed.by = "process_single_chunk"
    /\ offsets_text = WriteOffsets(<<-12, 0, 4>>, <<7050, 0, 12183>>)
    /\ parsed.tracks = <<Track(-12, 7050), Track(0, 0), Track(4, 12183)>>

====
